---- MODULE Spec2Model ----
(***************************************************************************)
(* A model of the GitHub crawler: the keyword filter, the deduplication,   *)
(* the classification of the ranked repositories and the persistence of    *)
(* the results, as run_crawler sequences them; the requests of the search  *)
(* client and a single call of the analyzer are modelled step by step in   *)
(* specifications of their own.                                            *)
(*                                                                         *)
(* A Python string is a sequence of one-character strings, so that         *)
(* lower(), "in", split and slicing are computed, not assumed.             *)
(***************************************************************************)
EXTENDS Integers, Sequences, FiniteSets, TLC

VARIABLES
    alive,              \* FALSE once the process was terminated from outside
    pc,                 \* the position of run_crawler
    required_keywords,  \* utils.py:90
    exclude_keywords,   \* utils.py:99
    max_results,        \* utils.py:60
    analyze_with_ai,    \* utils.py:65
    analyzer,           \* utils.py:112
    search_idx,         \* the searches of utils.py:133-162 done so far
    searched,           \* history: the query and the language of every search_repos call that has returned
    all_repos,          \* utils.py:131
    unique_repos_list,  \* utils.py:174
    filtered_repos,     \* utils.py:178
    batch_start,        \* utils.py:189
    idx,                \* utils.py:193
    attempt,            \* analyzer.py:115, analyzer.py:213
    output_data,        \* utils.py:185
    temp_json,          \* the file f"{output_json}.temp"
    output_json,        \* the file output_json
    output_csv,         \* the file output_csv
    classified,         \* history: the idx of every item whose classification began
    raised,             \* history: the idx of every item whose backend raised in its last attempt
    paced,              \* history: the idx of every item after which time.sleep(4) ran, with the seconds
    last_ckpt,          \* history: output_json before the last checkpoint step, and how the step ended
    rate_limit_remaining, \* crawler.py:19
    rate_limit_reset,   \* crawler.py:20
    now,                \* time.time(), in whole seconds
    max_pages,          \* crawler.py:22
    page,               \* crawler.py:50
    page_repos,         \* crawler.py:49, the all_repos of search_repos
    response,           \* crawler.py:54
    gate,               \* history: what _make_request saw before its last request, and whether it slept
    last_outcome,       \* history: what requests.get did in the last request
    requests_log,       \* history: the page and the number of items of every request of the current search_repos call
    ctor,               \* the arguments and the environment of RepoAnalyzer.__init__
    call_entry,         \* the method of the analyzer that is called
    call_repo,          \* its argument
    call_result,        \* what the call ended with
    call_outcome,       \* history: what the backend did in the last attempt
    call_events         \* history: the attempts, sleeps and handlers of the call

inputVars == << required_keywords, exclude_keywords, max_results,
                analyze_with_ai, analyzer >>

stageVars == << search_idx, searched, all_repos, unique_repos_list,
               filtered_repos >>

loopVars == << batch_start, idx, attempt, output_data, classified, raised,
              paced >>

fileVars == << temp_json, output_json, output_csv, last_ckpt >>

crawlerVars == << rate_limit_remaining, rate_limit_reset, now, max_pages, page,
                  page_repos, response, gate, last_outcome, requests_log >>

callVars == << ctor, call_entry, call_repo, call_result, call_outcome,
              call_events >>

vars == << alive, pc, inputVars, stageVars, loopVars, fileVars, crawlerVars,
           callVars >>

----------------------------------------------------------------------------
(* Bounds of the model. *)

\* the longest list of repositories handed to the filter alone
MaxRepos == 2
\* the longest required-keyword list handed to the filter alone
MaxKeywords == 2
\* the longest exclude-keyword list handed to the filter alone
MaxExclude == 1
\* the longest list of fetched items handed to the deduplication alone
MaxFetched == 4
\* the largest max_results a run is given
MaxResults == 4

----------------------------------------------------------------------------
(* Python strings. *)

\* None, as the value of a string-valued field
None == << "<None>" >>

REQUIRED_KEYWORDS ==
    << <<"M","S","P","4","3","0">>,
       <<"T","M","4","C","1","2","3">>,
       <<"M","S","P","4","3","2">>,
       <<"S","T","M","3","2">>,
       <<"S","T","M","3","2","F","7">>,
       <<"S","T","M","8">>,
       <<"E","S","P","8","2","6","6">>,
       <<"R","a","s","p","b","e","r","r","y">>,
       <<"B","e","a","g","l","e","b","o","n","e">>,
       <<"A","s","s","e","m","b","l","y">>,
       <<"R","T","O","S">>,
       <<"A","u","t","o","m","o","t","i","v","e">>,
       <<"O","S">>,
       <<"W","i","n","d","o","w","C","E">>,
       <<"C","o","m","p","i","l","e","r">>,
       <<"B","o","o","t","l","o","a","d","e","r">>,
       <<"e","m","b","e","d","d","e","d">>,
       <<"e","m","b","e","d","d","e","d"," ","g","u","i">>,
       <<"f","i","r","m","w","a","r","e">>,
       <<"d","r","i","v","e","r">>,
       <<"m","i","c","r","o","c","o","n","t","r","o","l","l","e","r">>,
       <<"r","e","a","l","-","t","i","m","e">>,
       <<"b","a","r","e","m","e","t","a","l">>,
       <<"b","a","r","e","-","m","e","t","a","l">>,
       <<"H","A","L">>,
       <<"B","S","P">> >>

EXCLUDE_KEYWORDS ==
    << <<"c","o","u","r","s","e">>,
       <<"t","u","t","o","r","i","a","l">>,
       <<"l","e","a","r","n">>,
       <<"t","r","a","i","n","i","n","g">>,
       <<"w","o","r","k","s","h","o","p">>,
       <<"l","e","s","s","o","n">>,
       <<"l","e","c","t","u","r","e">>,
       <<"c","l","a","s","s">>,
       <<"v","i","d","e","o"," ","c","o","u","r","s","e">>,
       <<"u","d","e","m","y">>,
       <<"c","o","u","r","s","e","r","a">>,
       <<"e","d","x">>,
       <<"e","d","u","c","a","t","i","o","n">>,
       <<"b","o","o","t","c","a","m","p">> >>

UpperToLower ==
    ("A" :> "a") @@ ("B" :> "b") @@ ("C" :> "c") @@ ("D" :> "d") @@ ("E" :> "e") @@ ("F" :> "f") @@ ("G" :> "g") @@ ("H" :> "h") @@ ("I" :> "i") @@ ("J" :> "j") @@ ("K" :> "k") @@ ("L" :> "l") @@ ("M" :> "m") @@ ("N" :> "n") @@ ("O" :> "o") @@ ("P" :> "p") @@ ("Q" :> "q") @@ ("R" :> "r") @@ ("S" :> "s") @@ ("T" :> "t") @@ ("U" :> "u") @@ ("V" :> "v") @@ ("W" :> "w") @@ ("X" :> "x") @@ ("Y" :> "y") @@ ("Z" :> "z")


\* str.lower() of one character
LowerChar(c) == IF c \in DOMAIN UpperToLower THEN UpperToLower[c] ELSE c

\* str.lower()
lower(s) == [i \in 1..Len(s) |-> LowerChar(s[i])]

\* k in s, for strings
IsSubstring(k, s) ==
    \E i \in 0..(Len(s) - Len(k)) : SubSeq(s, i + 1, i + Len(k)) = k

\* x in l, for a list
InList(x, l) == \E i \in 1..Len(l) : l[i] = x

\* sep.join(l)
RECURSIVE join(_, _)
join(sep, l) ==
    IF Len(l) = 0 THEN << >>
    ELSE IF Len(l) = 1 THEN l[1]
    ELSE l[1] \o sep \o join(sep, Tail(l))

\* all the sequences over S of length at most n
SeqsUpTo(S, n) == UNION { [1..k -> S] : k \in 0..n }

----------------------------------------------------------------------------
(* GitHubCrawler.filter_embedded_systems_repos *)

\* name = repo.get("name", "").lower()
RepoName(repo) == lower(repo.name)

\* description = repo.get("description", "").lower() if repo.get("description") else ""
RepoDescription(repo) ==
    IF repo.description = None \/ repo.description = << >> THEN << >>
    ELSE lower(repo.description)

\* topics = [t.lower() for t in repo.get("topics", [])]
RepoTopics(repo) == [i \in 1..Len(repo.topics) |-> lower(repo.topics[i])]

\* all_text = f"{name} {description} {' '.join(topics)}"
AllText(repo) ==
    RepoName(repo) \o << " " >> \o RepoDescription(repo) \o << " " >>
        \o join(<< " " >>, RepoTopics(repo))

\* the loop over exclude_keywords, with its break
RECURSIVE ShouldExclude(_, _)
ShouldExclude(repo, excl) ==
    IF Len(excl) = 0 THEN FALSE
    ELSE IF IsSubstring(lower(Head(excl)), AllText(repo)) THEN TRUE
    ELSE ShouldExclude(repo, Tail(excl))

\* KeywordMatches with the keyword looked for inside every topic, as it is
\* in the name and the description
KeywordMatchesInsideTopics(keyword, repo) ==
    LET keyword_lower == lower(keyword)
    IN  \/ IsSubstring(keyword_lower, RepoName(repo))
        \/ IsSubstring(keyword_lower, RepoDescription(repo))
        \/ \E i \in 1..Len(repo.topics) :
              IsSubstring(keyword_lower, RepoTopics(repo)[i])

\* the condition under which a required keyword is counted
KeywordMatches(keyword, repo) ==
    LET keyword_lower == lower(keyword)
    IN  \/ IsSubstring(keyword_lower, RepoName(repo))
        \/ IsSubstring(keyword_lower, RepoDescription(repo))
        \/ InList(keyword_lower, RepoTopics(repo))

\* CountMatches with a break after the first keyword that matches
RECURSIVE CountMatchesFirstOnly(_, _, _)
CountMatchesFirstOnly(repo, req, acc) ==
    IF Len(req) = 0 THEN acc
    ELSE IF KeywordMatches(Head(req), repo)
    THEN [match_count |-> acc.match_count + 1,
          matches |-> Append(acc.matches, Head(req))]
    ELSE CountMatchesFirstOnly(repo, Tail(req), acc)

\* the loop over required_keywords: match_count and matches, from acc
RECURSIVE CountMatches(_, _, _)
CountMatches(repo, req, acc) ==
    IF Len(req) = 0 THEN acc
    ELSE CountMatches(repo, Tail(req),
            IF KeywordMatches(Head(req), repo)
            THEN [match_count |-> acc.match_count + 1,
                  matches |-> Append(acc.matches, Head(req))]
            ELSE acc)

\* repo_copy, with the two fields the filter adds
RepoCopy(repo, m) ==
    [name |-> repo.name, full_name |-> repo.full_name,
     description |-> repo.description, language |-> repo.language,
     topics |-> repo.topics,
     keyword_match_count |-> m.match_count, matching_keywords |-> m.matches]

\* FilterLoop with the exclusion applied only to the repositories that no
\* required keyword matches
RECURSIVE FilterLoopMatchedKept(_, _, _)
FilterLoopMatchedKept(repos, req, excl) ==
    IF Len(repos) = 0 THEN << >>
    ELSE LET repo == Head(repos)
             rest == FilterLoopMatchedKept(Tail(repos), req, excl)
             m == CountMatches(repo, req, [match_count |-> 0, matches |-> << >>])
         IN  IF m.match_count > 0 THEN << RepoCopy(repo, m) >> \o rest
             ELSE rest

\* the loop over repos: filtered_repos before the sort
RECURSIVE FilterLoop(_, _, _)
FilterLoop(repos, req, excl) ==
    IF Len(repos) = 0 THEN << >>
    ELSE LET repo == Head(repos)
             rest == FilterLoop(Tail(repos), req, excl)
             m == CountMatches(repo, req, [match_count |-> 0, matches |-> << >>])
         IN  IF ShouldExclude(repo, excl) THEN rest
             ELSE IF m.match_count > 0 THEN << RepoCopy(repo, m) >> \o rest
             ELSE rest

\* InsertRanked with the element put in front of the elements that compare
\* equal to it, as a sort that is not stable may do
RECURSIVE InsertRankedUnstable(_, _)
InsertRankedUnstable(x, sorted) ==
    IF Len(sorted) = 0 THEN << x >>
    ELSE IF Head(sorted).keyword_match_count > x.keyword_match_count
         THEN << Head(sorted) >> \o InsertRankedUnstable(x, Tail(sorted))
         ELSE << x >> \o sorted

\* one element put into a list sorted by keyword_match_count, highest first,
\* behind the elements that compare equal to it
RECURSIVE InsertRanked(_, _)
InsertRanked(x, sorted) ==
    IF Len(sorted) = 0 THEN << x >>
    ELSE IF Head(sorted).keyword_match_count >= x.keyword_match_count
         THEN << Head(sorted) >> \o InsertRanked(x, Tail(sorted))
         ELSE << x >> \o sorted

\* filtered_repos.sort(key=lambda x: x["keyword_match_count"], reverse=True)
RECURSIVE SortRanked(_, _)
SortRanked(l, sorted) ==
    IF Len(l) = 0 THEN sorted
    ELSE SortRanked(Tail(l), InsertRanked(Head(l), sorted))

filter_embedded_systems_repos(repos, req, excl) ==
    SortRanked(FilterLoop(repos, req, excl), << >>)

----------------------------------------------------------------------------
(* run_crawler: the deduplication *)

\* DedupLoop with unique_repos[full_name] = repo for every item: the last
\* occurrence is kept, at the place of the first
RECURSIVE DedupLoopLastWins(_, _)
DedupLoopLastWins(repos, unique) ==
    IF Len(repos) = 0 THEN unique
    ELSE DedupLoopLastWins(Tail(repos),
            IF \E i \in 1..Len(unique) : unique[i].full_name = Head(repos).full_name
            THEN [i \in 1..Len(unique) |->
                    IF unique[i].full_name = Head(repos).full_name
                    THEN Head(repos) ELSE unique[i]]
            ELSE Append(unique, Head(repos)))

\* the loop over all_repos: unique_repos, as the list of its values in
\* insertion order
RECURSIVE DedupLoop(_, _)
DedupLoop(repos, unique) ==
    IF Len(repos) = 0 THEN unique
    ELSE DedupLoop(Tail(repos),
            IF \E i \in 1..Len(unique) : unique[i].full_name = Head(repos).full_name
            THEN unique
            ELSE Append(unique, Head(repos)))

----------------------------------------------------------------------------
(* More of Python's strings, as the analyzer uses them. *)

Min(a, b) == IF a <= b THEN a ELSE b

\* s.startswith(p)
StartsWith(s, p) == Len(s) >= Len(p) /\ SubSeq(s, 1, Len(p)) = p

\* s[:n]
Take(s, n) == SubSeq(s, 1, Min(n, Len(s)))

Whitespace == { " ", "\n", "\t" }

\* s.lstrip()
RECURSIVE lstrip(_)
lstrip(s) ==
    IF Len(s) > 0 /\ Head(s) \in Whitespace THEN lstrip(Tail(s)) ELSE s

\* s.rstrip()
RECURSIVE rstrip(_)
rstrip(s) ==
    IF Len(s) > 0 /\ s[Len(s)] \in Whitespace
    THEN rstrip(SubSeq(s, 1, Len(s) - 1)) ELSE s

\* s.strip()
strip(s) == rstrip(lstrip(s))

\* s.split(sep, 1): [ok |-> FALSE] stands for the IndexError that [1] raises
\* when sep does not occur in s, [ok |-> TRUE, rest |-> s.split(sep, 1)[1]]
SplitOnce(s, sep) ==
    LET at == { i \in 1..(Len(s) - Len(sep) + 1) : SubSeq(s, i, i + Len(sep) - 1) = sep }
    IN  IF at = {} THEN [ok |-> FALSE, rest |-> << >>]
        ELSE LET i == CHOOSE j \in at : \A k \in at : j <= k
             IN  [ok |-> TRUE, rest |-> SubSeq(s, i + Len(sep), Len(s))]

Digit == << "0", "1", "2", "3", "4", "5", "6", "7", "8", "9" >>

\* str(n), for n >= 0
RECURSIVE IntToStr(_)
IntToStr(n) ==
    IF n < 10 THEN << Digit[n + 1] >>
    ELSE IntToStr(n \div 10) \o << Digit[(n % 10) + 1] >>

----------------------------------------------------------------------------
(* The strings RepoAnalyzer and run_crawler answer with. *)

\* analyzer.py:68, 157
FALLBACK_MULTIPLE ==
    <<"Y","e","s"," ","(","f","a","l","l","b","a","c","k"," ","-"," ","m","u","l","t","i","p","l","e"," ","k","e","y","w","o","r","d","s"," ","m","a","t","c","h","e","d",")">>

\* analyzer.py:69, 159, 297; utils.py:228
FALLBACK_PREFILTERED ==
    <<"Y","e","s"," ","(","f","a","l","l","b","a","c","k"," ","-"," ","p","r","e","-","f","i","l","t","e","r","e","d"," ","r","e","p","o",")">>

\* analyzer.py:83
NA_GEMINI ==
    <<"N","/","A"," ","(","G","e","m","i","n","i"," ","A","P","I"," ","n","o","t"," ","c","o","n","f","i","g","u","r","e","d",")">>

\* analyzer.py:173
NA_OLLAMA ==
    <<"N","/","A"," ","(","O","l","l","a","m","a"," ","s","e","r","v","i","c","e"," ","n","o","t"," ","a","v","a","i","l","a","b","l","e",")">>

\* analyzer.py:135
YES_BASED_ON_KEYWORDS ==
    <<"Y","e","s"," ","-"," ","B","a","s","e","d"," ","o","n"," ","k","e","y","w","o","r","d","s"," ","a","n","d"," ","p","r","e","-","f","i","l","t","e","r","i","n","g">>

\* analyzer.py:137
NO_INSUFFICIENT ==
    <<"N","o"," ","-"," ","I","n","s","u","f","f","i","c","i","e","n","t"," ","e","v","i","d","e","n","c","e"," ","i","n"," ","r","e","p","o"," ","c","o","n","t","e","n","t">>

\* analyzer.py:155
FALLBACK_BY_KEYWORDS ==
    <<"Y","e","s"," ","(","f","a","l","l","b","a","c","k"," ","-"," ","e","m","b","e","d","d","e","d"," ","s","y","s","t","e","m","s"," ","r","e","p","o"," ","b","y"," ","k","e","y","w","o","r","d","s",")">>

\* analyzer.py:269
YES_APPEARS_RELEVANT ==
    <<"Y","e","s"," ","-"," ","R","e","p","o","s","i","t","o","r","y"," ","a","p","p","e","a","r","s"," ","r","e","l","e","v","a","n","t"," ","t","o"," ","e","m","b","e","d","d","e","d"," ","s","y","s","t","e","m","s">>

\* utils.py:221
API_ERROR_DEFAULT ==
    <<"Y","e","s"," ","(","A","P","I"," ","e","r","r","o","r"," ","-"," ","d","e","f","a","u","l","t","i","n","g"," ","t","o"," ","y","e","s",")">>


\* "Yes - " and "No - "
YES_DASH == <<"Y","e","s"," ","-"," ">>

NO_DASH == <<"N","o"," ","-"," ">>

\* ['c', 'c++', 'assembly'], analyzer.py:154
SYSTEMS_LANGUAGES ==
    { <<"c">>, <<"c","+","+">>, <<"a","s","s","e","m","b","l","y">> }

\* f"Yes - Contains {language} code and matches embedded keywords"
YesContains(language) ==
    <<"Y","e","s"," ","-"," ","C","o","n","t","a","i","n","s"," ">> \o language
    \o <<" ","c","o","d","e"," ","a","n","d"," ","m","a","t","c","h","e","s"," ","e","m","b","e","d","d","e","d"," ","k","e","y","w","o","r","d","s">>

\* f"Yes - Matches multiple embedded keywords ({keyword_count})"
YesMatchesMultiple(keyword_count) ==
    <<"Y","e","s"," ","-"," ","M","a","t","c","h","e","s"," ","m","u","l","t","i","p","l","e"," ","e","m","b","e","d","d","e","d"," ","k","e","y","w","o","r","d","s"," ","(">>
    \o IntToStr(keyword_count) \o << ")" >>

\* f"Yes (fallback - contains {language} code for embedded systems)"
FallbackContains(language) ==
    <<"Y","e","s"," ","(","f","a","l","l","b","a","c","k"," ","-"," ","c","o","n","t","a","i","n","s"," ">> \o language
    \o <<" ","c","o","d","e"," ","f","o","r"," ","e","m","b","e","d","d","e","d"," ","s","y","s","t","e","m","s",")">>

\* f"Yes (fallback - matches {matches} embedded keywords)"
FallbackMatches(matches) ==
    <<"Y","e","s"," ","(","f","a","l","l","b","a","c","k"," ","-"," ","m","a","t","c","h","e","s"," ">> \o IntToStr(matches)
    \o <<" ","e","m","b","e","d","d","e","d"," ","k","e","y","w","o","r","d","s",")">>

----------------------------------------------------------------------------
(* RepoAnalyzer *)

\* RepoAnalyzer with Gemini set up whether or not Ollama is asked for
RepoAnalyzerGeminiAlways(has_key, use_ollama, GEMINI_AVAILABLE, genai_ok, tags) ==
    [use_ollama |-> use_ollama,
     gemini_available |-> has_key /\ GEMINI_AVAILABLE /\ genai_ok,
     ollama_available |-> use_ollama /\ tags = "200"]

\* RepoAnalyzer with the Ollama service checked whether or not it is asked
\* for
RepoAnalyzerOllamaUnasked(has_key, use_ollama, GEMINI_AVAILABLE, genai_ok, tags) ==
    [use_ollama |-> use_ollama,
     gemini_available |->
        has_key /\ ~use_ollama /\ GEMINI_AVAILABLE /\ genai_ok,
     ollama_available |-> tags = "200"]

\* __init__: the analyzer built from the key, the flag, whether the Gemini
\* package is installed, whether genai.configure and GenerativeModel succeed,
\* and what the GET of /api/tags does ("200", "other", "exception")
RepoAnalyzer(has_key, use_ollama, GEMINI_AVAILABLE, genai_ok, tags) ==
    [use_ollama |-> use_ollama,
     gemini_available |->
        has_key /\ ~use_ollama /\ GEMINI_AVAILABLE /\ genai_ok,
     ollama_available |-> use_ollama /\ tags = "200"]

\* analyzer = None, utils.py:110
NoAnalyzer == [none |-> TRUE]

\* what one call of a backend or of a handler ends with
Return(value) == [kind |-> "return", value |-> value]

Raise == [kind |-> "raise", value |-> << >>]

\* KeywordFallback with the last resort of analyze_repo_with_gemini
\* (analyzer.py:134-137) in its place
KeywordFallbackUnsuitable(repo) ==
    IF repo.keyword_match_count >= 2 THEN FALLBACK_MULTIPLE
    ELSE NO_INSUFFICIENT

\* analyze_repo, when no AI service is available
KeywordFallback(repo) ==
    IF repo.keyword_match_count >= 2 THEN FALLBACK_MULTIPLE
    ELSE FALLBACK_PREFILTERED

\* the override conditions of analyze_repo_with_ollama; language.lower()
\* raises when the language is None
OllamaOverride(repo, no_answer) ==
    IF repo.language = None THEN Raise
    ELSE LET language == lower(repo.language)
             keyword_count == repo.keyword_match_count
         IN  IF language \in SYSTEMS_LANGUAGES /\ keyword_count >= 1
             THEN Return(YesContains(language))
             ELSE IF keyword_count >= 2
             THEN Return(YesMatchesMultiple(keyword_count))
             ELSE Return(no_answer)

\* analyze_repo_with_gemini: what the try body of one attempt does with the
\* text of the response
GeminiParse(repo, text) ==
    LET answer_text == strip(text)
        low == lower(answer_text)
    IN  IF IsSubstring(<<"y","e","s">>, Take(low, 10))
        THEN LET sp == SplitOnce(answer_text, <<"Y","e","s">>)
             IN  IF sp.ok THEN Return(YES_DASH \o Take(strip(sp.rest), 100))
                 ELSE Raise
        ELSE IF IsSubstring(<<"n","o">>, Take(low, 10))
        THEN LET sp == SplitOnce(answer_text, <<"N","o">>)
             IN  IF sp.ok THEN Return(NO_DASH \o Take(strip(sp.rest), 100))
                 ELSE Raise
        ELSE IF /\ IsSubstring(<<"s","u","i","t","a","b","l","e">>, low)
                /\ ~IsSubstring(<<"n","o","t">>, Take(low, 30))
        THEN Return(YES_DASH \o Take(answer_text, 100))
        ELSE IF \/ IsSubstring(<<"n","o","t"," ","s","u","i","t","a","b","l","e">>, low)
                \/ IsSubstring(<<"u","n","s","u","i","t","a","b","l","e">>, low)
        THEN Return(NO_DASH \o Take(answer_text, 100))
        ELSE IF repo.keyword_match_count >= 2
        THEN Return(YES_BASED_ON_KEYWORDS)
        ELSE Return(NO_INSUFFICIENT)

\* GeminiHandler raising the exception again
GeminiHandlerReraises(repo) == Raise

\* analyze_repo_with_gemini: the handler of the outer try
GeminiHandler(repo) ==
    IF repo.language = None THEN Raise
    ELSE LET matches == repo.keyword_match_count
             language == lower(repo.language)
         IN  IF matches >= 1 /\ language \in SYSTEMS_LANGUAGES
             THEN Return(FALLBACK_BY_KEYWORDS)
             ELSE IF matches >= 2 THEN Return(FALLBACK_MULTIPLE)
             ELSE Return(FALLBACK_PREFILTERED)

\* the explanation analyze_repo_with_ollama cuts out of the answer
OllamaExplanation(answer_text, word, word_dash) ==
    IF IsSubstring(word_dash, answer_text)
    THEN [ok |-> TRUE, rest |-> strip(SplitOnce(answer_text, word_dash).rest)]
    ELSE LET sp == SplitOnce(answer_text, word)
         IN  [ok |-> sp.ok, rest |-> strip(sp.rest)]

\* analyze_repo_with_ollama: what the try body of one attempt does with the
\* "response" field of a 200 response
OllamaParse(repo, text) ==
    LET answer_text == strip(text)
        low == lower(answer_text)
    IN  IF StartsWith(low, <<"y","e","s">>)
        THEN LET e == OllamaExplanation(answer_text, <<"Y","e","s">>, <<"Y","e","s"," ","-">>)
             IN  IF e.ok THEN Return(YES_DASH \o Take(e.rest, 95)) ELSE Raise
        ELSE IF StartsWith(low, <<"n","o">>)
        THEN LET e == OllamaExplanation(answer_text, <<"N","o">>, <<"N","o"," ","-">>)
             IN  IF e.ok THEN OllamaOverride(repo, NO_DASH \o Take(e.rest, 95))
                 ELSE Raise
        ELSE IF /\ IsSubstring(<<"s","u","i","t","a","b","l","e">>, low)
                /\ ~IsSubstring(<<"n","o","t">>, Take(low, 30))
        THEN Return(YES_DASH \o Take(answer_text, 95))
        ELSE IF \/ IsSubstring(<<"n","o","t"," ","s","u","i","t","a","b","l","e">>, low)
                \/ IsSubstring(<<"u","n","s","u","i","t","a","b","l","e">>, low)
        THEN OllamaOverride(repo, NO_DASH \o Take(answer_text, 95))
        ELSE Return(YES_APPEARS_RELEVANT)

\* analyze_repo_with_ollama: the handler of the outer try
OllamaHandler(repo) ==
    IF repo.language = None THEN Raise
    ELSE LET matches == repo.keyword_match_count
             language == lower(repo.language)
         IN  IF language \in SYSTEMS_LANGUAGES
             THEN Return(FallbackContains(language))
             ELSE IF matches >= 1 THEN Return(FallbackMatches(matches))
             ELSE Return(FALLBACK_PREFILTERED)

\* Backend without the check that the Ollama service answered
BackendWhenRequested(an) ==
    IF an.use_ollama THEN "ollama"
    ELSE IF an.gemini_available THEN "gemini"
    ELSE "none"

\* analyze_repo: the backend it hands the repository to
Backend(an) ==
    IF an.use_ollama /\ an.ollama_available THEN "ollama"
    ELSE IF an.gemini_available THEN "gemini"
    ELSE "none"

\* max_retries, analyzer.py:114 and analyzer.py:212
MAX_RETRIES == 3

Retry == [kind |-> "retry", value |-> << >>]

\* what the backend does in one attempt: it raises, answers with a status
\* that is not 200 (Ollama), or answers with a text
Exception == [kind |-> "exception", text |-> << >>]

BadStatus == [kind |-> "status", text |-> << >>]

Text(t) == [kind |-> "text", text |-> t]

\* whether the try body of the attempt raises
GeminiAttemptRaises(repo, outcome) ==
    \/ outcome.kind = "exception"
    \/ outcome.kind = "text" /\ GeminiParse(repo, outcome.text).kind = "raise"

OllamaAttemptRaises(repo, outcome) ==
    \/ outcome.kind = "exception"
    \/ outcome.kind = "text" /\ OllamaParse(repo, outcome.text).kind = "raise"

\* analyze_repo_with_gemini: the attempt numbered att (from 0) of the retry
\* loop, with the handler of the outer try when the last attempt raises
analyze_repo_with_gemini(an, repo, outcome, att) ==
    IF ~an.gemini_available THEN Return(NA_GEMINI)
    ELSE IF ~GeminiAttemptRaises(repo, outcome)
    THEN GeminiParse(repo, outcome.text)
    ELSE IF att < MAX_RETRIES - 1 THEN Retry
    ELSE GeminiHandler(repo)

\* analyze_repo_with_ollama: the attempt numbered att (from 0) of the retry
\* loop; after a last attempt that is answered with a status other than 200
\* the loop ends and the function returns nothing
analyze_repo_with_ollama(an, repo, outcome, att) ==
    IF ~an.ollama_available THEN Return(NA_OLLAMA)
    ELSE IF outcome.kind = "status"
    THEN IF att < MAX_RETRIES - 1 THEN Retry ELSE Return(None)
    ELSE IF ~OllamaAttemptRaises(repo, outcome)
    THEN OllamaParse(repo, outcome.text)
    ELSE IF att < MAX_RETRIES - 1 THEN Retry
    ELSE OllamaHandler(repo)

\* analyze_repo
analyze_repo(an, repo, outcome, att) ==
    IF Backend(an) = "ollama" THEN analyze_repo_with_ollama(an, repo, outcome, att)
    ELSE IF Backend(an) = "gemini" THEN analyze_repo_with_gemini(an, repo, outcome, att)
    ELSE Return(KeywordFallback(repo))

\* whether the chosen backend raises in this attempt
AttemptRaises(an, repo, outcome) ==
    IF Backend(an) = "ollama" THEN OllamaAttemptRaises(repo, outcome)
    ELSE IF Backend(an) = "gemini" THEN GeminiAttemptRaises(repo, outcome)
    ELSE FALSE

----------------------------------------------------------------------------
(* What the runs of the model are given. *)

\* the repositories of the platform
STM32_HAL ==
    [name |-> <<"s","t","m","3","2","-","h","a","l">>,
     full_name |-> "org/stm32-hal",
     description |-> <<"H","A","L"," ","f","o","r"," ","S","T","M","3","2">>,
     language |-> <<"C">>,
     topics |-> << <<"s","t","m","3","2">>, <<"h","a","l">> >>]

\* the same repository, as a later search describes it
STM32_HAL_LATER ==
    [name |-> <<"s","t","m","3","2","-","h","a","l">>,
     full_name |-> "org/stm32-hal",
     description |-> <<"S","T","M","3","2"," ","H","A","L"," ","d","r","i","v","e","r">>,
     language |-> <<"C">>,
     topics |-> << <<"s","t","m","3","2">>, <<"h","a","l">> >>]

RTOS_KERNEL ==
    [name |-> <<"r","t","o","s","-","k","e","r","n","e","l">>,
     full_name |-> "org/rtos-kernel",
     description |-> None,
     language |-> <<"C","+","+">>,
     topics |-> << <<"r","t","o","s">> >>]

FW_TUTORIAL ==
    [name |-> <<"f","w">>,
     full_name |-> "org/fw",
     description |-> <<"f","i","r","m","w","a","r","e"," ","t","u","t","o","r","i","a","l">>,
     language |-> <<"C">>,
     topics |-> << >>]

BOOT ==
    [name |-> <<"b","o","o","t">>,
     full_name |-> "org/boot",
     description |-> <<"a"," ","b","o","o","t","l","o","a","d","e","r">>,
     language |-> <<"A","s","s","e","m","b","l","y">>,
     topics |-> << >>]

\* a repository whose language the platform does not know
BLINKY ==
    [name |-> <<"b","l","i","n","k","y">>,
     full_name |-> "org/blinky",
     description |-> <<"b","a","r","e","-","m","e","t","a","l"," ","b","l","i","n","k">>,
     language |-> None,
     topics |-> << >>]

WEBAPP ==
    [name |-> <<"w","e","b","a","p","p">>,
     full_name |-> "org/webapp",
     description |-> <<"w","e","b">>,
     language |-> <<"C">>,
     topics |-> << <<"e","m","b","e","d","d","e","d","-","c">> >>]

\* utils.py:122-129
broader_queries ==
    << "embedded systems", "firmware", "microcontroller", "STM32", "MSP430",
       "RTOS" >>

\* Languages with the assembly search made for every query
LanguagesAllThree(query) == << "c", "c++", "assembly" >>

\* utils.py:136-161: the languages search_repos is called with for a query,
\* in the order of the calls
Languages(query) ==
    IF query \in { "embedded systems", "firmware" }
    THEN << "c", "c++", "assembly" >>
    ELSE << "c", "c++" >>

\* utils.py:133: the searches of the loop over the queries
RECURSIVE SearchesOf(_)
SearchesOf(queries) ==
    IF Len(queries) = 0 THEN << >>
    ELSE [i \in 1..Len(Languages(Head(queries))) |->
             << Head(queries), Languages(Head(queries))[i] >>]
         \o SearchesOf(Tail(queries))

\* broader_queries with the languages searched for each, in the order of
\* utils.py:133-162
SEARCHES == SearchesOf(broader_queries)

\* what the platform holds for a search
Platform(search) ==
    CASE search = << "embedded systems", "c" >> ->
            << FW_TUTORIAL, BLINKY, WEBAPP, STM32_HAL >>
      [] search = << "firmware", "assembly" >> -> << BOOT >>
      [] search = << "STM32", "c" >> -> << STM32_HAL_LATER >>
      [] search = << "RTOS", "c++" >> -> << RTOS_KERNEL >>
      [] OTHER -> << >>

\* what the backends answer with
RESPONSES ==
    { <<"Y","e","s"," ","-"," ","e","m","b","e","d","d","e","d"," ","c","o","d","e">>,
      <<"N","o"," ","-"," ","d","o","c","s"," ","o","n","l","y">> }

\* the outcomes of one attempt, for each backend
Outcomes(backend) ==
    IF backend = "gemini" THEN { Exception } \cup { Text(t) : t \in RESPONSES }
    ELSE IF backend = "ollama"
    THEN { Exception, BadStatus } \cup { Text(t) : t \in RESPONSES }
    ELSE { Exception }

----------------------------------------------------------------------------
(* Files. *)

\* no file at the path
Absent == [exists |-> FALSE, complete |-> FALSE, data |-> << >>]

\* open(path, 'w'): the file is there and empty
Opened == [exists |-> TRUE, complete |-> FALSE, data |-> << >>]

\* the file after json.dump wrote one more record of data
Written(file, data) ==
    [file EXCEPT !.data = Append(file.data, data[Len(file.data) + 1])]

\* the file with all of json.dump's text in it
Completed(file) == [file EXCEPT !.complete = TRUE]

----------------------------------------------------------------------------
(* The steps of run_crawler. *)

\* batch_size, utils.py:188
BATCH_SIZE == 3

\* time.sleep(4), utils.py:225
PACING_SECONDS == 4

Running(p) == alive /\ pc = p

\* Cap without max_results
CapIgnored == Len(filtered_repos)

\* min(len(filtered_repos), max_results)
Cap == Min(Len(filtered_repos), max_results)

\* batch_end, utils.py:190
BatchEnd == Min(batch_start + BATCH_SIZE, Cap)

\* repo_data, utils.py:195-207
RepoData(repo) ==
    [name |-> repo.name, full_name |-> repo.full_name,
     description |-> repo.description, language |-> repo.language,
     topics |-> repo.topics,
     keyword_match_count |-> repo.keyword_match_count,
     matching_keywords |-> repo.matching_keywords]

\* repo_data["ai_response"] = ai_response
WithResponse(repo_data, ai_response) ==
    [name |-> repo_data.name, full_name |-> repo_data.full_name,
     description |-> repo_data.description, language |-> repo_data.language,
     topics |-> repo_data.topics,
     keyword_match_count |-> repo_data.keyword_match_count,
     matching_keywords |-> repo_data.matching_keywords,
     ai_response |-> ai_response]

\* one search of the schedule: search_repos returns what the platform holds,
\* or nothing when its first request fails
SearchStep ==
    /\ Running("search")
    /\ search_idx < Len(SEARCHES)
    /\ \E result \in { Platform(SEARCHES[search_idx + 1]), << >> } :
          all_repos' = all_repos \o result
    /\ search_idx' = search_idx + 1
    /\ searched' = Append(searched, SEARCHES[search_idx + 1])
    /\ pc' = IF search_idx + 1 = Len(SEARCHES) THEN "dedup" ELSE "search"
    /\ UNCHANGED << alive, inputVars, crawlerVars, callVars,
                    unique_repos_list, filtered_repos,
                    loopVars, fileVars >>

\* Dedup with every fetched item kept
DedupSkipped ==
    /\ Running("dedup")
    /\ unique_repos_list' = all_repos
    /\ pc' = "filter"
    /\ UNCHANGED << alive, inputVars, crawlerVars, callVars,
                    search_idx, searched, all_repos, filtered_repos,
                    loopVars, fileVars >>

\* utils.py:167-174
Dedup ==
    /\ Running("dedup")
    /\ unique_repos_list' = DedupLoop(all_repos, << >>)
    /\ pc' = "filter"
    /\ UNCHANGED << alive, inputVars, crawlerVars, callVars,
                    search_idx, searched, all_repos, filtered_repos,
                    loopVars, fileVars >>

\* utils.py:178-182
Filter ==
    /\ Running("filter")
    /\ filtered_repos' =
          filter_embedded_systems_repos(unique_repos_list, required_keywords,
                                        exclude_keywords)
    /\ pc' = "batch"
    /\ UNCHANGED << alive, inputVars, crawlerVars, callVars,
                    search_idx, searched, all_repos, unique_repos_list,
                    loopVars, fileVars >>

\* utils.py:189: the next batch, or the end of the loop
BatchBegin ==
    /\ Running("batch")
    /\ batch_start < Cap
    /\ idx' = batch_start
    /\ pc' = "item"
    /\ UNCHANGED << alive, inputVars, crawlerVars, callVars,
                    stageVars, batch_start, attempt,
                    output_data, classified, raised, paced, fileVars >>

BatchLoopEnd ==
    /\ Running("batch")
    /\ batch_start >= Cap
    /\ pc' = "final_open"
    /\ UNCHANGED << alive, inputVars, crawlerVars, callVars,
                    stageVars, loopVars, fileVars >>

\* utils.py:231: output_data.append(repo_data), and the next idx
Finish(repo_data, ai_response) ==
    /\ output_data' = Append(output_data, WithResponse(repo_data, ai_response))
    /\ idx' = idx + 1
    /\ attempt' = 0
    /\ pc' = "item"

\* AnalysisFailed without the handler: the exception ends run_crawler
AnalysisAborts(repo_data) ==
    /\ pc' = "aborted"
    /\ UNCHANGED << idx, attempt, output_data >>

\* utils.py:218-222: the handler of an exception that analyze_repo raises
AnalysisFailed(repo_data) == Finish(repo_data, API_ERROR_DEFAULT)

\* utils.py:226-229: an item when no AI analysis was asked for
ItemWithoutAI ==
    /\ Running("item")
    /\ idx < BatchEnd
    /\ ~analyze_with_ai
    /\ Finish(RepoData(filtered_repos[idx + 1]), FALLBACK_PREFILTERED)
    /\ classified' = Append(classified, idx)
    /\ UNCHANGED << alive, inputVars, crawlerVars, callVars,
                    stageVars, batch_start, raised, paced, fileVars >>

\* utils.py:210-225: one attempt of analyzer.analyze_repo(repo_data); the
\* item is done when the call returns or raises, and time.sleep(4) follows
Analyze ==
    /\ Running("item")
    /\ idx < BatchEnd
    /\ analyze_with_ai
    /\ \E outcome \in Outcomes(Backend(analyzer)) :
          LET repo_data == RepoData(filtered_repos[idx + 1])
              r == analyze_repo(analyzer, repo_data, outcome, attempt)
          IN  /\ CASE r.kind = "return" -> Finish(repo_data, r.value)
                   [] r.kind = "raise" -> AnalysisFailed(repo_data)
                   [] r.kind = "retry" ->
                        /\ attempt' = attempt + 1
                        /\ UNCHANGED << pc, idx, output_data >>
              /\ raised' =
                    IF /\ AttemptRaises(analyzer, repo_data, outcome)
                       /\ attempt = MAX_RETRIES - 1
                    THEN raised \cup { idx } ELSE raised
              /\ paced' = IF r.kind = "retry" THEN paced
                          ELSE Append(paced, [idx |-> idx, secs |-> PACING_SECONDS])
    /\ classified' = IF attempt = 0 THEN Append(classified, idx) ELSE classified
    /\ UNCHANGED << alive, inputVars, crawlerVars, callVars,
                    stageVars, batch_start, fileVars >>

\* utils.py:193: the batch has no more items
BatchItemsEnd ==
    /\ Running("item")
    /\ idx = BatchEnd
    /\ pc' = "ckpt_open"
    /\ UNCHANGED << alive, inputVars, crawlerVars, callVars,
                    stageVars, loopVars, fileVars >>

\* the end of the checkpoint step, and the next batch_start of the range
NextBatch ==
    /\ batch_start' = batch_start + BATCH_SIZE
    /\ pc' = "batch"

\* CkptOpen with output_json itself opened for writing
CkptOpenInPlace ==
    /\ Running("ckpt_open")
    /\ temp_json' = Opened
    /\ output_json' = Opened
    /\ last_ckpt' = [before |-> output_json, result |-> "writing"]
    /\ pc' = "ckpt_write"
    /\ UNCHANGED << alive, inputVars, crawlerVars, callVars,
                    stageVars, loopVars, output_csv >>

\* utils.py:236: open(f"{output_json}.temp", 'w')
CkptOpen ==
    /\ Running("ckpt_open")
    /\ temp_json' = Opened
    /\ last_ckpt' = [before |-> output_json, result |-> "writing"]
    /\ pc' = "ckpt_write"
    /\ UNCHANGED << alive, inputVars, crawlerVars, callVars,
                    stageVars, loopVars, output_json, output_csv >>

\* CkptWrite with only the records of the batch dumped
CkptWriteLastBatch ==
    /\ Running("ckpt_write")
    /\ LET batch == SubSeq(output_data, batch_start + 1, Len(output_data))
       IN  IF Len(temp_json.data) < Len(batch)
           THEN /\ temp_json' = Written(temp_json, batch)
                /\ pc' = "ckpt_write"
           ELSE /\ temp_json' = Completed(temp_json)
                /\ pc' = "ckpt_rename"
    /\ UNCHANGED << alive, inputVars, crawlerVars, callVars,
                    stageVars, loopVars, output_json,
                    output_csv, last_ckpt >>

\* utils.py:237: json.dump writes the next record, or its last text
CkptWrite ==
    /\ Running("ckpt_write")
    /\ IF Len(temp_json.data) < Len(output_data)
       THEN /\ temp_json' = Written(temp_json, output_data)
            /\ pc' = "ckpt_write"
       ELSE /\ temp_json' = Completed(temp_json)
            /\ pc' = "ckpt_rename"
    /\ UNCHANGED << alive, inputVars, crawlerVars, callVars,
                    stageVars, loopVars, output_json,
                    output_csv, last_ckpt >>

\* utils.py:240-243: os.replace or os.rename of the temporary file
CkptRename ==
    /\ Running("ckpt_rename")
    /\ output_json' = temp_json
    /\ temp_json' = Absent
    /\ last_ckpt' = [last_ckpt EXCEPT !.result = "renamed"]
    /\ NextBatch
    /\ UNCHANGED << alive, inputVars, crawlerVars, callVars,
                    stageVars, idx, attempt, output_data,
                    classified, raised, paced, output_csv >>

\* CkptFail with the exception of the checkpoint step ending the run
CkptFailAborts ==
    /\ alive
    /\ pc \in { "ckpt_open", "ckpt_write", "ckpt_rename" }
    /\ last_ckpt' = [before |-> output_json, result |-> "failed"]
    /\ pc' = "aborted"
    /\ UNCHANGED << alive, inputVars, crawlerVars, callVars,
                    stageVars, loopVars, temp_json, output_json,
                    output_csv >>

\* utils.py:246-247: an exception of the checkpoint step is printed
CkptFail ==
    /\ alive
    /\ pc \in { "ckpt_open", "ckpt_write", "ckpt_rename" }
    /\ last_ckpt' = [before |-> output_json, result |-> "failed"]
    /\ NextBatch
    /\ UNCHANGED << alive, inputVars, crawlerVars, callVars,
                    stageVars, idx, attempt, output_data,
                    classified, raised, paced, temp_json, output_json,
                    output_csv >>

\* utils.py:252: open(output_json, 'w')
FinalOpen ==
    /\ Running("final_open")
    /\ output_json' = Opened
    /\ pc' = "final_write"
    /\ UNCHANGED << alive, inputVars, crawlerVars, callVars,
                    stageVars, loopVars, temp_json,
                    output_csv, last_ckpt >>

\* utils.py:253: json.dump writes the next record, or its last text
FinalWrite ==
    /\ Running("final_write")
    /\ IF Len(output_json.data) < Len(output_data)
       THEN /\ output_json' = Written(output_json, output_data)
            /\ pc' = "final_write"
       ELSE /\ output_json' = Completed(output_json)
            /\ pc' = "save_csv"
    /\ UNCHANGED << alive, inputVars, crawlerVars, callVars,
                    stageVars, loopVars, temp_json,
                    output_csv, last_ckpt >>

\* utils.py:256: save_csv(output_data, output_csv), and the summary
SaveCsv ==
    /\ Running("save_csv")
    /\ output_csv' = [exists |-> TRUE, complete |-> TRUE, data |-> output_data]
    /\ pc' = "done"
    /\ UNCHANGED << alive, inputVars, crawlerVars, callVars,
                    stageVars, loopVars, temp_json,
                    output_json, last_ckpt >>

\* utils.py:271-272: an exception of the final save is printed
FinalFail ==
    /\ alive
    /\ pc \in { "final_open", "final_write", "save_csv" }
    /\ pc' = "done"
    /\ UNCHANGED << alive, inputVars, crawlerVars, callVars,
                    stageVars, loopVars, fileVars >>

\* the process is terminated from outside, wherever it is
Terminate ==
    /\ alive
    /\ pc # "done"
    /\ alive' = FALSE
    /\ UNCHANGED << pc, inputVars, crawlerVars, callVars,
                    stageVars, loopVars, fileVars >>

----------------------------------------------------------------------------
(* The specifications. *)

\* what _make_request returns: None, or the JSON body of the response, which
\* is an empty object, an object without "items", or a page of items
NoResponse == [truthy |-> FALSE, has_items |-> FALSE, items |-> << >>, none |-> TRUE]

EmptyObject == [truthy |-> FALSE, has_items |-> FALSE, items |-> << >>, none |-> FALSE]

ErrorObject == [truthy |-> TRUE, has_items |-> FALSE, items |-> << >>, none |-> FALSE]

PageObject(items) == [truthy |-> TRUE, has_items |-> TRUE, items |-> items, none |-> FALSE]

\* no call of _make_request under way
NoGate == [remaining |-> 0, reset |-> 0, at |-> 0, slept |-> FALSE]

NoOutcome == [kind |-> "none"]

\* GitHubCrawler.__init__, and no search_repos call begun
NoSearch ==
    /\ rate_limit_remaining = 0
    /\ rate_limit_reset = 0
    /\ now = 0
    /\ max_pages = 0
    /\ page = 1
    /\ page_repos = << >>
    /\ response = NoResponse
    /\ gate = NoGate
    /\ last_outcome = NoOutcome
    /\ requests_log = << >>

\* no argument and no end of a call of the analyzer
NoRepo == [none |-> TRUE]

NoResult == [kind |-> "none", value |-> << >>]

\* no call of the analyzer begun
NoCall ==
    /\ ctor = [has_key |-> FALSE, use_ollama |-> FALSE, GEMINI_AVAILABLE |-> FALSE,
               genai_ok |-> FALSE, tags |-> "exception"]
    /\ call_entry = "none"
    /\ call_repo = NoRepo
    /\ call_result = NoResult
    /\ call_outcome = NoOutcome
    /\ call_events = << >>

\* the state of run_crawler's variables before its loops
InitLoop ==
    /\ alive = TRUE
    /\ batch_start = 0
    /\ idx = 0
    /\ attempt = 0
    /\ output_data = << >>
    /\ classified = << >>
    /\ raised = {}
    /\ paced = << >>
    /\ temp_json = Absent
    /\ output_json = Absent
    /\ output_csv = Absent
    /\ last_ckpt = [before |-> Absent, result |-> "none"]

\* a run of run_crawler
Init ==
    /\ pc = "search"
    /\ required_keywords = REQUIRED_KEYWORDS
    /\ exclude_keywords = EXCLUDE_KEYWORDS
    /\ max_results \in 0..MaxResults
    /\ analyze_with_ai \in BOOLEAN
    /\ \E has_key \in BOOLEAN, use_ollama \in BOOLEAN, GEMINI_AVAILABLE \in BOOLEAN,
          genai_ok \in BOOLEAN, tags \in { "200", "other", "exception" } :
          analyzer = IF analyze_with_ai
                     THEN RepoAnalyzer(has_key, use_ollama, GEMINI_AVAILABLE,
                                       genai_ok, tags)
                     ELSE NoAnalyzer
    /\ search_idx = 0
    /\ searched = << >>
    /\ all_repos = << >>
    /\ unique_repos_list = << >>
    /\ filtered_repos = << >>
    /\ InitLoop
    /\ NoSearch
    /\ NoCall

\* the steps run_crawler takes by itself
Proceed ==
    \/ SearchStep
    \/ Dedup
    \/ Filter
    \/ BatchBegin
    \/ BatchLoopEnd
    \/ ItemWithoutAI
    \/ Analyze
    \/ BatchItemsEnd
    \/ CkptOpen
    \/ CkptWrite
    \/ CkptRename
    \/ CkptFail
    \/ FinalOpen
    \/ FinalWrite
    \/ SaveCsv
    \/ FinalFail

Next == Proceed \/ Terminate

Spec == Init /\ [][Next]_vars

----------------------------------------------------------------------------
(* The filter alone, on every short list of sample repositories and every   *)
(* short list of sample keywords.                                           *)

\* sample repositories: what their texts are is what matters to the filter
FILTER_REPOS ==
    { [name |-> <<"a","b">>, full_name |-> "f/1", description |-> None,
       language |-> <<"C">>, topics |-> << >>],
      [name |-> <<"a">>, full_name |-> "f/2", description |-> <<"B">>,
       language |-> <<"C">>, topics |-> << >>],
      [name |-> <<"x">>, full_name |-> "f/3", description |-> <<"x">>,
       language |-> <<"C">>, topics |-> << <<"A","B">> >>],
      [name |-> <<"x">>, full_name |-> "f/4", description |-> None,
       language |-> <<"C">>, topics |-> << <<"a">>, <<"b">> >>],
      [name |-> <<"x">>, full_name |-> "f/5", description |-> << >>,
       language |-> <<"C">>, topics |-> << >>],
      [name |-> <<"B">>, full_name |-> "f/6", description |-> <<"a","b">>,
       language |-> <<"C">>, topics |-> << <<"b">> >>] }

\* sample keywords
FILTER_KEYWORDS == { <<"A","B">>, <<"b">>, <<"a"," ","b">> }

\* the state of a run that has not begun
InitIdle ==
    /\ max_results = 0
    /\ analyze_with_ai = FALSE
    /\ analyzer = NoAnalyzer
    /\ search_idx = Len(SEARCHES)
    /\ searched = SEARCHES
    /\ InitLoop

InitFilter ==
    /\ pc = "filter"
    /\ required_keywords \in SeqsUpTo(FILTER_KEYWORDS, MaxKeywords)
    /\ exclude_keywords \in SeqsUpTo(FILTER_KEYWORDS, MaxExclude)
    /\ unique_repos_list \in SeqsUpTo(FILTER_REPOS, MaxRepos)
    /\ all_repos = unique_repos_list
    /\ filtered_repos = << >>
    /\ InitIdle
    /\ NoSearch
    /\ NoCall

NextFilter == Filter

SpecFilter == InitFilter /\ [][NextFilter]_vars

----------------------------------------------------------------------------
(* The deduplication alone, on every short list of fetched items.           *)

\* sample items: two identities, each fetched with two descriptions
DEDUP_REPOS ==
    { [name |-> <<"r">>, full_name |-> f, description |-> d,
       language |-> <<"C">>, topics |-> << >>] :
         f \in { "org/repo", "org/other" },
         d \in { <<"f","i","r","s","t">>, <<"s","e","c","o","n","d">> } }

InitDedup ==
    /\ pc = "dedup"
    /\ required_keywords = REQUIRED_KEYWORDS
    /\ exclude_keywords = EXCLUDE_KEYWORDS
    /\ all_repos \in SeqsUpTo(DEDUP_REPOS, MaxFetched)
    /\ unique_repos_list = << >>
    /\ filtered_repos = << >>
    /\ InitIdle
    /\ NoSearch
    /\ NoCall

NextDedup == Dedup

SpecDedup == InitDedup /\ [][NextDedup]_vars

----------------------------------------------------------------------------
(* The search client step by step: the search loop of run_crawler with      *)
(* search_repos and _make_request, the platform answering each request      *)
(* with any of the sample outcomes.                                         *)

\* per_page, crawler.py:46
PER_PAGE == 100

\* the largest max_pages of a run
MaxPages == 2

\* the seconds the clock is let run between the requests
MaxTime == 3

\* whether a string is made of digits
IsNumber(s) ==
    /\ s # None
    /\ Len(s) > 0
    /\ \A i \in 1..Len(s) : \E d \in 1..10 : Digit[d] = s[i]

\* int(s), for a string of digits
RECURSIVE int(_)
int(s) ==
    IF Len(s) = 0 THEN 0
    ELSE 10 * int(SubSeq(s, 1, Len(s) - 1))
         + ((CHOOSE d \in 1..10 : Digit[d] = s[Len(s)]) - 1)

\* the items the platform holds for a page: n items of the search numbered s
Items(s, p, n) == [k \in 1..n |-> << s, p, k >>]

\* the values of the X-RateLimit-Remaining header; None when it is absent
REMAINING_HEADERS == { None, <<"1">>, <<"2">>, <<"x">> }

\* the values of the X-RateLimit-Reset header; None when it is absent
RESET_HEADERS == { None, IntToStr(2), IntToStr(MaxTime + 2) }

\* what requests.get does for page p of search s: it raises, or answers with
\* a status, headers and a body
RequestException == [kind |-> "exception"]

HttpResponse(status, remaining_header, reset_header, json) ==
    [kind |-> "response", status_code |-> status,
     remaining_header |-> remaining_header, reset_header |-> reset_header,
     json |-> json]

ServerOutcomes(s, p) ==
    { RequestException }
    \cup { HttpResponse(status, rem, res, ErrorObject) :
              status \in { 403, 500 }, rem \in REMAINING_HEADERS,
              res \in RESET_HEADERS }
    \cup { HttpResponse(200, rem, res, body) :
              rem \in REMAINING_HEADERS, res \in RESET_HEADERS,
              body \in { EmptyObject, ErrorObject }
                       \cup { PageObject(Items(s, p, n)) : n \in { 0, 1, PER_PAGE } } }

\* crawler.py:174 with the buffer second left out
SleepTimeNoBuffer(wait_time) == wait_time

\* crawler.py:174: the time _make_request sleeps for
SleepTime(wait_time) == wait_time + 1

\* crawler.py:170-172: whether _make_request waits before the request
MustWait(remaining, reset, time) ==
    /\ remaining <= 1
    /\ reset > 0
    /\ reset - time > 0

\* crawler.py:176-197: the fields and the return value after the request.
\* int() of a header that is no number raises inside the try, after the
\* assignments before it
make_request(outcome, remaining, reset) ==
    IF outcome.kind = "exception"
    THEN [remaining |-> remaining, reset |-> reset, response |-> NoResponse]
    ELSE IF outcome.remaining_header # None /\ ~IsNumber(outcome.remaining_header)
    THEN [remaining |-> remaining, reset |-> reset, response |-> NoResponse]
    ELSE LET new_remaining ==
                 IF outcome.remaining_header = None THEN 0
                 ELSE int(outcome.remaining_header)
             reset_time == outcome.reset_header
         IN  IF reset_time # None /\ Len(reset_time) > 0 /\ ~IsNumber(reset_time)
             THEN [remaining |-> new_remaining, reset |-> reset, response |-> NoResponse]
             ELSE [remaining |-> new_remaining,
                   reset |-> IF reset_time # None /\ Len(reset_time) > 0
                             THEN int(reset_time) ELSE reset,
                   response |-> IF outcome.status_code = 200
                                THEN outcome.json ELSE NoResponse]

\* the number of items of a page that was fetched, -1 for a request that
\* failed or was answered without items
ItemCount(resp) ==
    IF ~resp.truthy \/ ~resp.has_items THEN -1
    ELSE Len(resp.items)

\* SearchPage returning nothing of the call when a request fails
SearchPageDropsOnFailure(resp, pg, repos) ==
    IF ~resp.truthy \/ ~resp.has_items
    THEN [stop |-> TRUE, page |-> pg, repos |-> << >>]
    ELSE IF Len(resp.items) = 0
    THEN [stop |-> TRUE, page |-> pg, repos |-> repos]
    ELSE [stop |-> Len(resp.items) < PER_PAGE, page |-> pg + 1,
          repos |-> repos \o resp.items]

\* SearchPage without the check of the last page
SearchPageNoLastPage(resp, pg, repos) ==
    IF ~resp.truthy \/ ~resp.has_items
    THEN [stop |-> TRUE, page |-> pg, repos |-> repos]
    ELSE IF Len(resp.items) = 0
    THEN [stop |-> TRUE, page |-> pg, repos |-> repos]
    ELSE [stop |-> FALSE, page |-> pg + 1, repos |-> repos \o resp.items]

\* crawler.py:56-67: what search_repos does with the response for a page
SearchPage(resp, pg, repos) ==
    IF ~resp.truthy \/ ~resp.has_items
    THEN [stop |-> TRUE, page |-> pg, repos |-> repos]
    ELSE IF Len(resp.items) = 0
    THEN [stop |-> TRUE, page |-> pg, repos |-> repos]
    ELSE [stop |-> Len(resp.items) < PER_PAGE, page |-> pg + 1,
          repos |-> repos \o resp.items]

\* utils.py:136-162: run_crawler calls search_repos; crawler.py:49-50
SearchBegin ==
    /\ Running("search")
    /\ search_idx < Len(SEARCHES)
    /\ page' = 1
    /\ page_repos' = << >>
    /\ requests_log' = << >>
    /\ pc' = "pages"
    /\ UNCHANGED << alive, inputVars, stageVars, loopVars, fileVars, callVars,
                    rate_limit_remaining, rate_limit_reset, now, max_pages,
                    response, gate, last_outcome >>

\* time passes between the requests
Tick ==
    /\ Running("pages")
    /\ now < MaxTime
    /\ now' = now + 1
    /\ UNCHANGED << alive, pc, inputVars, stageVars, loopVars, fileVars, callVars,
                    rate_limit_remaining, rate_limit_reset, max_pages, page,
                    page_repos, response, gate, last_outcome, requests_log >>

\* crawler.py:52: the loop ends with max_pages pages fetched
PagesEnd ==
    /\ Running("pages")
    /\ ~(page <= max_pages)
    /\ pc' = "return"
    /\ UNCHANGED << alive, inputVars, stageVars, loopVars, fileVars, callVars,
                    crawlerVars >>

\* crawler.py:52-54, 169-174: _make_request is called for the page and
\* sleeps when the rate limit is used up; time.sleep may return late
RateLimitGate ==
    /\ Running("pages")
    /\ page <= max_pages
    /\ LET wait_time == rate_limit_reset - now
           wait == MustWait(rate_limit_remaining, rate_limit_reset, now)
       IN  /\ \E late \in 0..1 :
                now' = IF wait THEN now + SleepTime(wait_time) + late ELSE now
           /\ gate' = [remaining |-> rate_limit_remaining,
                       reset |-> rate_limit_reset, at |-> now, slept |-> wait]
    /\ pc' = "request"
    /\ UNCHANGED << alive, inputVars, stageVars, loopVars, fileVars, callVars,
                    rate_limit_remaining, rate_limit_reset, max_pages, page,
                    page_repos, response, last_outcome, requests_log >>

\* crawler.py:176-197: the request and what _make_request returns
Request ==
    /\ Running("request")
    /\ \E outcome \in ServerOutcomes(search_idx + 1, page) :
          LET r == make_request(outcome, rate_limit_remaining, rate_limit_reset)
          IN  /\ rate_limit_remaining' = r.remaining
              /\ rate_limit_reset' = r.reset
              /\ response' = r.response
              /\ last_outcome' = outcome
              /\ requests_log' =
                    Append(requests_log,
                           [page |-> page, items |-> ItemCount(r.response)])
    /\ pc' = "page"
    /\ UNCHANGED << alive, inputVars, stageVars, loopVars, fileVars, callVars,
                    now, max_pages, page, page_repos, gate >>

\* crawler.py:56-67; the call of _make_request is over
PageStep ==
    /\ Running("page")
    /\ LET r == SearchPage(response, page, page_repos)
       IN  /\ page' = r.page
           /\ page_repos' = r.repos
           /\ pc' = IF r.stop THEN "return" ELSE "pages"
    /\ gate' = NoGate
    /\ last_outcome' = NoOutcome
    /\ UNCHANGED << alive, inputVars, stageVars, loopVars, fileVars, callVars,
                    rate_limit_remaining, rate_limit_reset, now, max_pages,
                    response, requests_log >>

\* crawler.py:69, utils.py:142: search_repos returns, its variables are gone,
\* and run_crawler extends all_repos
SearchReturn ==
    /\ Running("return")
    /\ all_repos' = all_repos \o page_repos
    /\ search_idx' = search_idx + 1
    /\ searched' = Append(searched, SEARCHES[search_idx + 1])
    /\ pc' = IF search_idx + 1 = Len(SEARCHES) THEN "dedup" ELSE "search"
    /\ page' = 1
    /\ page_repos' = << >>
    /\ response' = NoResponse
    /\ requests_log' = << >>
    /\ UNCHANGED << alive, inputVars, unique_repos_list, filtered_repos,
                    loopVars, fileVars, callVars, rate_limit_remaining,
                    rate_limit_reset, now, max_pages, gate, last_outcome >>

\* a run at the searches of its last query, the earlier searches having
\* found nothing
InitSearch ==
    /\ pc = "search"
    /\ required_keywords = REQUIRED_KEYWORDS
    /\ exclude_keywords = EXCLUDE_KEYWORDS
    /\ max_results = 0
    /\ analyze_with_ai = FALSE
    /\ analyzer = NoAnalyzer
    /\ search_idx = Len(SEARCHES) - 2
    /\ searched = SubSeq(SEARCHES, 1, Len(SEARCHES) - 2)
    /\ all_repos = << >>
    /\ unique_repos_list = << >>
    /\ filtered_repos = << >>
    /\ InitLoop
    /\ rate_limit_remaining = 0
    /\ rate_limit_reset = 0
    /\ now = 0
    /\ max_pages \in -1..MaxPages
    /\ page = 1
    /\ page_repos = << >>
    /\ response = NoResponse
    /\ gate = NoGate
    /\ last_outcome = NoOutcome
    /\ requests_log = << >>
    /\ NoCall

NextSearch ==
    \/ SearchBegin
    \/ Tick
    \/ PagesEnd
    \/ RateLimitGate
    \/ Request
    \/ PageStep
    \/ SearchReturn

SpecSearch == InitSearch /\ [][NextSearch]_vars

----------------------------------------------------------------------------
(* The analyzer alone: RepoAnalyzer is built from every combination of its  *)
(* arguments and its environment, and one of its methods is called once     *)
(* for a sample repository, the backend answering each attempt with any of  *)
(* the sample outcomes.                                                     *)

\* the largest keyword_match_count of the sample repositories
MaxMatches == 2

\* the languages of the sample repositories; None is a repository for which
\* the platform names no language
LANGUAGES == { None, <<"C">>, <<"A","s","s","e","m","b","l","y">>,
               <<"P","y","t","h","o","n">> }

\* sample repositories: the analyzer reads their language and their
\* keyword_match_count
ANALYZE_REPOS ==
    { [name |-> <<"r">>, full_name |-> "org/r", description |-> <<"d">>,
       language |-> l, topics |-> << >>, keyword_match_count |-> k,
       matching_keywords |-> << >>] :
         l \in LANGUAGES, k \in 0..MaxMatches }

\* an explanation longer than what the backends keep of it
LONG_EXPLANATION == [i \in 1..120 |-> "x"]

\* the texts the backends answer with
ANSWERS ==
    { <<"Y","e","s"," ","-"," ","e","m","b","e","d","d","e","d"," ","c","o","d","e">>,
      <<"N","o"," ","-"," ","d","o","c","s"," ","o","n","l","y">>,
      <<"y","e","s"," ","-"," ","f","i","r","m","w","a","r","e">>,
      <<"n","o"," ","-"," ","d","o","c","s">>,
      <<" "," ","Y","e","s",","," ","H","A","L"," ","d","r","i","v","e","r","s">>,
      <<"Y","e","s"," ","-"," ">> \o LONG_EXPLANATION,
      <<"N","o"," ","-"," ">> \o LONG_EXPLANATION,
      <<"I","t"," ","i","s"," ","s","u","i","t","a","b","l","e">>,
      <<"T","h","i","s"," ","i","s"," ","n","o","t"," ","s","u","i","t","a","b","l","e">>,
      <<"U","n","s","u","i","t","a","b","l","e"," ","r","e","p","o">>,
      <<"M","a","y","b","e">> }

\* the outcomes of one attempt of a call, for each backend
AnalyzeOutcomes(backend) ==
    { Exception } \cup { Text(a) : a \in ANSWERS }
    \cup (IF backend = "ollama" THEN { BadStatus } ELSE { })

\* the sleep after a failed attempt, with the check for the last attempt
\* left out
BackoffAlways(att) == 3

\* analyzer.py:141-142, 272-273, 279-280: the seconds slept after the failed
\* attempt numbered att (from 0); none after the last
Backoff(att) == IF att < MAX_RETRIES - 1 THEN 3 ELSE 0

\* whether the attempt ends without an answer: the try body raises, or the
\* status is not 200
AttemptFailed(backend, item, outcome) ==
    \/ outcome.kind = "status"
    \/ backend = "gemini" /\ GeminiAttemptRaises(item, outcome)
    \/ backend = "ollama" /\ OllamaAttemptRaises(item, outcome)

\* the backend whose method runs for the call
EntryBackend(entry, an) ==
    IF entry = "analyze_repo" THEN Backend(an)
    ELSE IF entry = "analyze_repo_with_gemini" THEN "gemini"
    ELSE "ollama"

\* the backend of the call under way
CallBackend == call_events[1].backend

\* Available with the check at the head of the two methods left out
AvailableUnchecked(an, backend) == TRUE

\* analyzer.py:82, 172: the flag each backend's method tests before anything
\* else
Available(an, backend) ==
    IF backend = "gemini" THEN an.gemini_available ELSE an.ollama_available

\* analyzer.py:22-48
Construct ==
    /\ Running("construct")
    /\ analyzer' = RepoAnalyzer(ctor.has_key, ctor.use_ollama, ctor.GEMINI_AVAILABLE,
                                ctor.genai_ok, ctor.tags)
    /\ pc' = "call"
    /\ UNCHANGED << alive, required_keywords, exclude_keywords, max_results,
                    analyze_with_ai, stageVars, loopVars, fileVars, crawlerVars,
                    callVars >>

\* analyzer.py:60-69, 82-83, 172-173: the method is entered; it returns at
\* once without a backend, and when its backend is not available
CallBegin ==
    /\ Running("call")
    /\ LET backend == EntryBackend(call_entry, analyzer)
           available == Available(analyzer, backend)
       IN  /\ call_events' = << [ev |-> "enter", backend |-> backend] >>
           /\ IF backend = "none"
              THEN /\ call_result' = Return(KeywordFallback(call_repo))
                   /\ pc' = "returned"
              ELSE IF ~available
              THEN /\ call_result' =
                         Return(IF backend = "gemini" THEN NA_GEMINI ELSE NA_OLLAMA)
                   /\ pc' = "returned"
              ELSE /\ call_result' = call_result
                   /\ pc' = "attempt"
    /\ attempt' = 0
    /\ UNCHANGED << alive, inputVars, stageVars, batch_start, idx, output_data,
                    classified, raised, paced, fileVars, crawlerVars, ctor,
                    call_entry,
                    call_repo, call_outcome >>

\* analyzer.py:115-144, 213-282: one attempt of the retry loop, with the
\* sleep that follows a failed attempt and, after the last attempt, the
\* handler of the outer try (analyzer.py:146-159, 284-297)
AttemptStep ==
    /\ Running("attempt")
    /\ \E outcome \in AnalyzeOutcomes(CallBackend) :
          LET r == IF CallBackend = "gemini"
                   THEN analyze_repo_with_gemini(analyzer, call_repo, outcome, attempt)
                   ELSE analyze_repo_with_ollama(analyzer, call_repo, outcome, attempt)
              failed == AttemptFailed(CallBackend, call_repo, outcome)
              secs == IF failed THEN Backoff(attempt) ELSE 0
              handled == /\ outcome.kind # "status"
                         /\ failed
                         /\ attempt = MAX_RETRIES - 1
          IN  /\ call_outcome' = outcome
              /\ call_events' =
                    call_events
                    \o << [ev |-> "attempt", n |-> attempt] >>
                    \o (IF secs > 0 THEN << [ev |-> "sleep", secs |-> secs] >>
                        ELSE << >>)
                    \o (IF handled THEN << [ev |-> "handler"] >> ELSE << >>)
              /\ IF r.kind = "retry"
                 THEN /\ attempt' = attempt + 1
                      /\ UNCHANGED << pc, call_result >>
                 ELSE /\ call_result' = r
                      /\ pc' = "returned"
                      /\ attempt' = attempt
    /\ UNCHANGED << alive, inputVars, stageVars, batch_start, idx, output_data,
                    classified, raised, paced, fileVars, crawlerVars, ctor,
                    call_entry,
                    call_repo >>

\* every analyzer, every method and every sample repository
InitAnalyze ==
    /\ pc = "construct"
    /\ required_keywords = REQUIRED_KEYWORDS
    /\ exclude_keywords = EXCLUDE_KEYWORDS
    /\ all_repos = << >>
    /\ unique_repos_list = << >>
    /\ filtered_repos = << >>
    /\ InitIdle
    /\ NoSearch
    /\ ctor \in [has_key : BOOLEAN, use_ollama : BOOLEAN, GEMINI_AVAILABLE : BOOLEAN,
                 genai_ok : BOOLEAN, tags : { "200", "other", "exception" }]
    /\ call_entry \in { "analyze_repo", "analyze_repo_with_gemini",
                        "analyze_repo_with_ollama" }
    /\ call_repo \in ANALYZE_REPOS
    /\ call_result = NoResult
    /\ call_outcome = NoOutcome
    /\ call_events = << >>

NextAnalyze ==
    \/ Construct
    \/ CallBegin
    \/ AttemptStep

SpecAnalyze == InitAnalyze /\ [][NextAnalyze]_vars

----------------------------------------------------------------------------
(* The claims. *)

\* the fields of a repository that the filter and run_crawler copy
SameRepo(r, repo) ==
    /\ r.name = repo.name
    /\ r.full_name = repo.full_name
    /\ r.description = repo.description
    /\ r.language = repo.language
    /\ r.topics = repo.topics

\* the lower-cased name, description and topics of a repository, one after
\* the other with a space between them
ConcatenatedText(repo) ==
    lower(repo.name) \o << " " >>
    \o (IF repo.description = None THEN << >> ELSE lower(repo.description))
    \o << " " >>
    \o join(<< " " >>, [i \in 1..Len(repo.topics) |-> lower(repo.topics[i])])

\* an exclude keyword occurs in the text of the repository
HitsExcludeKeyword(repo) ==
    \E j \in 1..Len(exclude_keywords) :
        IsSubstring(lower(exclude_keywords[j]), ConcatenatedText(repo))

\* the places of required_keywords whose keyword matches the repository
MatchedPlaces(repo) ==
    { j \in 1..Len(required_keywords) : KeywordMatches(required_keywords[j], repo) }

\* the n-th smallest element of a set of numbers
NthOf(P, n) == CHOOSE j \in P : Cardinality({ x \in P : x < j }) = n - 1

\* C1: a repository in whose name, description or topics an exclude keyword
\* occurs is not in the output of the filter, however many required keywords
\* match it.
C1_ExclusionDominance ==
    pc = "batch" =>
        \A i \in 1..Len(unique_repos_list) :
            HitsExcludeKeyword(unique_repos_list[i]) =>
                \A k \in 1..Len(filtered_repos) :
                    ~SameRepo(filtered_repos[k], unique_repos_list[i])

\* a repository that an exclude keyword hits and two required keywords
\* match was filtered, beside one that came through
C1_Witness ==
    /\ pc = "batch"
    /\ Len(filtered_repos) > 0
    /\ \E i \in 1..Len(unique_repos_list) :
          /\ HitsExcludeKeyword(unique_repos_list[i])
          /\ Cardinality(MatchedPlaces(unique_repos_list[i])) >= 2

\* C2: every repository of the filter's output carries the number of required
\* keywords that match it and those keywords, all of them and in the order of
\* the required-keyword list; the number is the length of the list and is at
\* least 1.
C2_MatchRecording ==
    pc = "batch" =>
        \A k \in 1..Len(filtered_repos) :
            LET r == filtered_repos[k]
                P == MatchedPlaces(r)
            IN  /\ r.keyword_match_count = Cardinality(P)
                /\ Len(r.matching_keywords) = Cardinality(P)
                /\ \A n \in 1..Len(r.matching_keywords) :
                      r.matching_keywords[n] = required_keywords[NthOf(P, n)]
                /\ r.keyword_match_count = Len(r.matching_keywords)
                /\ r.keyword_match_count >= 1

\* the output holds a repository that two different keywords match, and a
\* repository of the input that no keyword matches is not in it
C2_Witness ==
    /\ pc = "batch"
    /\ \E k \in 1..Len(filtered_repos) :
          /\ filtered_repos[k].keyword_match_count = 2
          /\ filtered_repos[k].matching_keywords[1] # filtered_repos[k].matching_keywords[2]
    /\ \E i \in 1..Len(unique_repos_list) :
          /\ MatchedPlaces(unique_repos_list[i]) = {}
          /\ ~HitsExcludeKeyword(unique_repos_list[i])
          /\ \A k \in 1..Len(filtered_repos) :
                ~SameRepo(filtered_repos[k], unique_repos_list[i])

\* the first place of all_repos with the full_name
FirstPlace(full_name) ==
    CHOOSE i \in 1..Len(all_repos) :
        /\ all_repos[i].full_name = full_name
        /\ \A j \in 1..(i - 1) : all_repos[j].full_name # full_name

\* C3: the merged list holds, for every full_name fetched, exactly one item,
\* and it is the first item fetched with that full_name; the later ones are
\* dropped.
C3_FirstWriteWins ==
    pc = "filter" =>
        /\ \A i \in 1..Len(all_repos) :
              LET at == { k \in 1..Len(unique_repos_list) :
                            unique_repos_list[k].full_name = all_repos[i].full_name }
              IN  /\ Cardinality(at) = 1
                  /\ \A k \in at :
                        unique_repos_list[k] = all_repos[FirstPlace(all_repos[i].full_name)]
        /\ Len(unique_repos_list) =
              Cardinality({ all_repos[i].full_name : i \in 1..Len(all_repos) })

\* an identity was fetched twice with different descriptions, and the merged
\* list has it once
C3_Witness ==
    /\ pc = "filter"
    /\ \E i, j \in 1..Len(all_repos) :
          /\ i < j
          /\ all_repos[i].full_name = all_repos[j].full_name
          /\ all_repos[i].description # all_repos[j].description
    /\ Len(unique_repos_list) < Len(all_repos)

\* the verdict an answer of the classification stands for
IsSuitable(v) == StartsWith(v, <<"Y","e","s">>)

IsUnsuitable(v) == StartsWith(v, <<"N","o">>)

IsUnavailable(v) == StartsWith(v, <<"N","/","A">>)

\* a record of the output is the record of a ranked repository
RecordOf(record, ranked) ==
    /\ SameRepo(record, ranked)
    /\ record.keyword_match_count = ranked.keyword_match_count
    /\ record.matching_keywords = ranked.matching_keywords

\* the number of items a run is to classify
ToClassify ==
    IF Len(filtered_repos) <= max_results THEN Len(filtered_repos) ELSE max_results

\* C4: when neither backend is available, analyze_repo answers every item
\* with Yes, "fallback - multiple keywords matched" for two or more matched
\* keywords and "fallback - pre-filtered repo" otherwise, and never raises.
C4_FallbackTotality ==
    (analyze_with_ai /\ ~analyzer.gemini_available /\ ~analyzer.ollama_available) =>
        /\ raised = {}
        /\ \A i \in 1..Len(output_data) :
              /\ IsSuitable(output_data[i].ai_response)
              /\ output_data[i].ai_response =
                    IF output_data[i].keyword_match_count >= 2
                    THEN FALLBACK_MULTIPLE ELSE FALLBACK_PREFILTERED

\* a run without a backend ended with an item of two matched keywords and an
\* item of one
C4_Witness ==
    /\ pc = "done"
    /\ analyze_with_ai
    /\ ~analyzer.gemini_available /\ ~analyzer.ollama_available
    /\ \E i, j \in 1..Len(output_data) :
          /\ output_data[i].keyword_match_count >= 2
          /\ output_data[j].keyword_match_count = 1

\* C5: every record of the output carries exactly one of the three verdicts
\* as its ai_response, whatever the attempts of the backend did.
C5_OneVerdictPerItem ==
    \A i \in 1..Len(output_data) :
        LET v == output_data[i].ai_response
        IN  /\ v # None
            /\ IsSuitable(v) \/ IsUnsuitable(v) \/ IsUnavailable(v)

\* an answer that run_crawler or a handler of a backend gives for an error
IsErrorDefault(v) ==
    \/ v = API_ERROR_DEFAULT
    \/ StartsWith(v, <<"Y","e","s"," ","(","f","a","l","l","b","a","c","k"," ","-"," ">>)

\* run_crawler is at a statement that it can execute
CanProceed ==
    \/ pc = "search" /\ search_idx < Len(SEARCHES)
    \/ pc \in { "dedup", "filter", "batch" }
    \/ pc = "item" /\ idx <= BatchEnd
    \/ pc \in { "ckpt_open", "ckpt_write", "ckpt_rename" }
    \/ pc \in { "final_open", "final_write", "save_csv" }

\* C6: an item whose backend raised is recorded with a Yes that names the
\* fallback or the error, the run goes on from every state it can be in until
\* it has ended, and at the end every item to classify is in the output.
C6_FailuresNeverAbort ==
    /\ \A i \in raised :
          /\ i + 1 <= Len(output_data)
          /\ IsSuitable(output_data[i + 1].ai_response)
          /\ IsErrorDefault(output_data[i + 1].ai_response)
    /\ (alive /\ pc # "done") => CanProceed
    /\ pc = "done" =>
          /\ Len(output_data) = ToClassify
          /\ \A i \in 1..Len(output_data) : RecordOf(output_data[i], filtered_repos[i])

\* the backend raised for an item that was not the last, once in a handler
\* too, and the run ended with the final file written
C6_Witness ==
    /\ pc = "done"
    /\ output_json.complete
    /\ \E i \in raised : i + 1 < Len(output_data)
    /\ \E i \in raised : output_data[i + 1].ai_response = API_ERROR_DEFAULT

\* C7: when the process is terminated, the file at output_json is absent or
\* a snapshot that was written completely.
C7_RecoverableAtTermination ==
    ~alive => (output_json = Absent \/ output_json.complete)

\* the positions of the checkpoint step after the temporary file was opened
InCheckpointStep == pc \in { "ckpt_write", "ckpt_rename" }

\* C8: from the opening of the temporary file to the rename, terminated or
\* not, output_json is what it was before the step; in the step it changes
\* only by the rename, to a temporary file that was written completely.
C8_CheckpointStepAtomic ==
    /\ [](InCheckpointStep => output_json = last_ckpt.before)
    /\ [][(pc \in { "ckpt_open", "ckpt_write", "ckpt_rename" }
            /\ output_json' # output_json)
          => /\ pc = "ckpt_rename"
             /\ temp_json.complete
             /\ output_json' = temp_json]_vars

\* the process was terminated with the temporary file of the second
\* checkpoint written and not renamed: the first checkpoint is in place
C8_Witness ==
    /\ ~alive
    /\ pc = "ckpt_rename"
    /\ temp_json.complete
    /\ output_json.complete
    /\ output_json = last_ckpt.before
    /\ Len(output_json.data) < Len(temp_json.data)

IsPrefix(a, b) == Len(a) <= Len(b) /\ SubSeq(b, 1, Len(a)) = a

\* C9: the items are classified in ranked order, three to a batch; after the
\* checkpoint of the batch that ends at 3k was renamed, output_json holds the
\* records of the first min(3k, N) items, in order; every complete
\* output_json is a prefix of the output.
C9_CheckpointContent ==
    /\ \A i \in 1..Len(classified) : classified[i] = i - 1
    /\ \A i \in 1..Len(output_data) : RecordOf(output_data[i], filtered_repos[i])
    /\ pc = "ckpt_open" =>
          /\ Len(output_data) = Min(batch_start + 3, ToClassify)
          /\ batch_start % 3 = 0
    /\ (pc = "batch" /\ last_ckpt.result = "renamed") =>
          /\ output_json.complete
          /\ Len(output_json.data) = Min(batch_start, ToClassify)
          /\ output_json.data = SubSeq(output_data, 1, Min(batch_start, ToClassify))
    /\ output_json.complete => IsPrefix(output_json.data, output_data)

\* the checkpoint of the second batch was renamed and holds four records
C9_Witness ==
    /\ pc = "batch"
    /\ last_ckpt.result = "renamed"
    /\ batch_start = 6
    /\ Len(output_json.data) = 4

\* C10: no more than min(len(filtered_repos), max_results) items are
\* classified or written, they are the first of the ranked list in its order,
\* and at the end of the run they are exactly that many.
C10_ClassificationCap ==
    /\ Len(classified) <= ToClassify
    /\ Len(output_data) <= Len(classified)
    /\ \A i \in 1..Len(classified) : classified[i] = i - 1
    /\ \A i \in 1..Len(output_data) : RecordOf(output_data[i], filtered_repos[i])
    /\ pc = "done" =>
          /\ Len(classified) = ToClassify
          /\ Len(output_data) = ToClassify
          /\ output_csv.exists =>
                /\ output_json.data = output_data
                /\ output_csv.data = output_data

\* a run ended whose ranked list is longer than max_results
C10_Witness ==
    /\ pc = "done"
    /\ max_results > 0
    /\ Len(filtered_repos) > max_results
    /\ Len(output_data) = max_results
    /\ output_csv.exists

----------------------------------------------------------------------------
(* The claims about the search client, checked under SpecSearch. *)

\* whether the response of the last request carries rate limit headers
HasNoRateLimitHeaders(outcome) ==
    /\ outcome.kind = "response"
    /\ outcome.remaining_header = None
    /\ outcome.reset_header = None

\* C11: after a response that carries neither rate limit header,
\* rate_limit_remaining and rate_limit_reset are what they were before the
\* request.
C11_AbsentMetadataLeavesLimiter ==
    (pc = "page" /\ HasNoRateLimitHeaders(last_outcome)) =>
        /\ rate_limit_remaining = gate.remaining
        /\ rate_limit_reset = gate.reset

\* C12: a request is about to be issued: _make_request has slept exactly when
\* rate_limit_remaining was at most 1 and rate_limit_reset lay in the future,
\* the time then is rate_limit_reset + 1 or later, and otherwise no time has
\* passed since _make_request was entered.
C12_RateLimitGate ==
    pc = "request" =>
        /\ gate.remaining = rate_limit_remaining
        /\ gate.reset = rate_limit_reset
        /\ gate.slept <=> (gate.remaining <= 1 /\ gate.reset > gate.at)
        /\ gate.slept => now >= gate.reset + 1
        /\ ~gate.slept => now = gate.at

\* a request is about to be issued at the very second after the reset, the
\* limit having been used up by an earlier request of the call
C12_Witness ==
    /\ pc = "request"
    /\ gate.slept
    /\ gate.remaining = 1
    /\ now = gate.reset + 1
    /\ Len(requests_log) = 1

\* the items of the pages of a log, in its order
RECURSIVE FetchedItems(_, _)
FetchedItems(s, log) ==
    IF log = << >> THEN << >>
    ELSE LET e == log[Len(log)]
         IN  FetchedItems(s, SubSeq(log, 1, Len(log) - 1))
             \o (IF e.items > 0 THEN Items(s, e.page, e.items) ELSE << >>)

\* C13: the requests of a search_repos call are for the pages 1, 2, 3, ...,
\* at most max_pages of them; a request follows only full pages; the call
\* returns after max_pages pages or after the first response that failed,
\* was empty or had fewer than PER_PAGE items, with the items of the pages
\* fetched, in page order.
C13_PaginationTermination ==
    /\ \A i \in 1..Len(requests_log) : requests_log[i].page = i
    /\ Len(requests_log) <= (IF max_pages > 0 THEN max_pages ELSE 0)
    /\ \A i \in 1..(Len(requests_log) - 1) : requests_log[i].items = PER_PAGE
    /\ pc \in { "pages", "request" } =>
          /\ page = Len(requests_log) + 1
          /\ \A i \in 1..Len(requests_log) : requests_log[i].items = PER_PAGE
    /\ pc = "return" =>
          /\ \/ Len(requests_log) = (IF max_pages > 0 THEN max_pages ELSE 0)
             \/ /\ Len(requests_log) > 0
                /\ requests_log[Len(requests_log)].items < PER_PAGE
          /\ page_repos = FetchedItems(search_idx + 1, requests_log)

\* a call with max_pages = 2 returned after a full page and a page of one
\* item
C13_Witness ==
    /\ pc = "return"
    /\ Len(requests_log) = 2
    /\ requests_log[2].items = 1
    /\ Len(page_repos) = PER_PAGE + 1

\* the last request failed: requests.get raised, or the status was not 200
RequestFailed(outcome) ==
    \/ outcome.kind = "exception"
    \/ outcome.kind = "response" /\ outcome.status_code # 200

\* C14: a request that fails makes _make_request return None; search_repos
\* then returns the items of the pages before it and makes no further
\* request, and run_crawler appends them and goes on to the next search.
C14_PartialResultsOnFailure ==
    /\ []((pc = "page" /\ RequestFailed(last_outcome)) =>
            /\ response = NoResponse
            /\ requests_log[Len(requests_log)].items = -1)
    /\ []((/\ pc = "return"
           /\ Len(requests_log) > 0
           /\ requests_log[Len(requests_log)].items = -1) =>
            /\ Len(page_repos) = (Len(requests_log) - 1) * PER_PAGE
            /\ page_repos =
                  FetchedItems(search_idx + 1,
                               SubSeq(requests_log, 1, Len(requests_log) - 1)))
    /\ [][(pc = "page" /\ response = NoResponse) =>
             /\ pc' = "return"
             /\ page_repos' = page_repos
             /\ requests_log' = requests_log]_vars
    /\ [][pc = "return" =>
             /\ alive'
             /\ all_repos' = all_repos \o page_repos
             /\ search_idx' = search_idx + 1
             /\ pc' = IF search_idx' < Len(SEARCHES) THEN "search" ELSE "dedup"]_vars

\* the second search of the run, with the items of the first in all_repos,
\* returns the first page after the request for the second page failed
C14_Witness ==
    /\ pc = "return"
    /\ search_idx = Len(SEARCHES) - 1
    /\ Len(all_repos) > 0
    /\ Len(requests_log) = 2
    /\ requests_log[2].items = -1
    /\ Len(page_repos) = PER_PAGE

----------------------------------------------------------------------------
(* The claims about the analyzer, checked under SpecAnalyze. *)

\* a credential was supplied and the Gemini library was imported and set up
\* without error
HostedUsable == ctor.has_key /\ ctor.GEMINI_AVAILABLE /\ ctor.genai_ok

\* the Ollama service answered the request of the constructor with 200
LocalUsable == ctor.tags = "200"

\* analyze_repo was called and has chosen
Dispatched == call_entry = "analyze_repo" /\ pc \in { "attempt", "returned" }

\* C15, as it is claimed: analyze_repo uses Ollama when it was asked for and
\* is usable, else Gemini whenever a credential was supplied and the library
\* was set up, also when Ollama was asked for and is not usable, else the
\* keyword fallback.
C15_BackendSelectionAsClaimed ==
    Dispatched =>
        CallBackend = IF ctor.use_ollama /\ LocalUsable THEN "ollama"
                      ELSE IF HostedUsable THEN "gemini"
                      ELSE "none"

\* C15, amended: analyze_repo uses Ollama when it was asked for and is
\* usable, else Gemini when Ollama was not asked for and Gemini is usable,
\* else the keyword fallback, which answers at once; when Ollama was asked
\* for and is not usable the fallback is used. No call changes the analyzer.
C15_BackendSelection ==
    /\ [](Dispatched =>
            /\ CallBackend = IF ctor.use_ollama /\ LocalUsable THEN "ollama"
                             ELSE IF ~ctor.use_ollama /\ HostedUsable THEN "gemini"
                             ELSE "none"
            /\ CallBackend = "none" =>
                  /\ pc = "returned"
                  /\ Len(call_events) = 1
                  /\ call_result = Return(IF call_repo.keyword_match_count >= 2
                                          THEN FALLBACK_MULTIPLE
                                          ELSE FALLBACK_PREFILTERED))
    /\ [][pc # "construct" => analyzer' = analyzer]_vars

\* Ollama was asked for and does not answer, a credential was supplied and
\* the library was set up: analyze_repo has used the keyword fallback
C15_Witness ==
    /\ Dispatched
    /\ pc = "returned"
    /\ ctor.use_ollama
    /\ ~LocalUsable
    /\ HostedUsable
    /\ CallBackend = "none"

\* C16, as it is claimed: gemini_available holds exactly when a credential
\* was supplied and the library was set up without error, whatever
\* use_ollama is.
C16_HostedAvailabilityAsClaimed ==
    pc # "construct" => (analyzer.gemini_available <=> HostedUsable)

\* C16, amended: gemini_available holds exactly when a credential was
\* supplied, Ollama was not asked for, and the library was imported and set
\* up without error.
C16_HostedAvailability ==
    pc # "construct" =>
        (analyzer.gemini_available <=> (HostedUsable /\ ~ctor.use_ollama))

\* an analyzer built with a credential and the library set up, and with
\* use_ollama: Gemini is not available
C16_Witness ==
    /\ pc # "construct"
    /\ HostedUsable
    /\ ctor.use_ollama
    /\ ~analyzer.gemini_available

IsAttemptEvent(e) == e.ev = "attempt"

\* the attempts of the call so far
AttemptEvents == SelectSeq(call_events, IsAttemptEvent)

LastAttemptRaised ==
    /\ pc = "returned"
    /\ Len(AttemptEvents) = 3
    /\ call_outcome.kind # "status"
    /\ AttemptFailed(CallBackend, call_repo, call_outcome)

\* C18, as it is claimed: when the third attempt raises, the call of the
\* backend raises.
C18_FinalAttemptPropagatesAsClaimed ==
    LastAttemptRaised => call_result.kind = "raise"

\* C18, amended: when the third attempt raises, the handler of the backend
\* runs and the call returns a Yes that names the fallback; the call raises
\* only for a repository without a language, for which the handler itself
\* raises.
C18_FinalAttemptHandled ==
    LastAttemptRaised =>
        /\ call_events[Len(call_events)].ev = "handler"
        /\ IF call_repo.language = None
           THEN call_result.kind = "raise"
           ELSE /\ call_result.kind = "return"
                /\ IsSuitable(call_result.value)
                /\ StartsWith(call_result.value, <<"Y","e","s"," ","(","f","a","l","l","b","a","c","k"," ","-"," ">>)

\* requests of all three attempts raised and the call returned an answer
C18_Witness ==
    /\ LastAttemptRaised
    /\ call_outcome.kind = "exception"
    /\ call_result.kind = "return"
    /\ CallBackend = "gemini"

\* the backend has answered the last attempt with a text
Answered == pc \in { "attempt", "returned" } /\ call_outcome.kind = "text"

\* the text, stripped and in lower case
AnswerLow == lower(strip(call_outcome.text))

\* the override conditions of the local backend, as the claim states them
OverrideApplies(item) ==
    \/ /\ item.language # None
       /\ lower(item.language) \in SYSTEMS_LANGUAGES
       /\ item.keyword_match_count >= 1
    \/ item.keyword_match_count >= 2

\* C19: a text that starts with "yes" in any letter case gives a Yes in the
\* attempt that got it, a text that starts with "no" a No, unless the local
\* override applies, and the answer keeps at most 100 characters of the
\* explanation.
C19_YesNoParsing ==
    Answered =>
        /\ StartsWith(AnswerLow, <<"y","e","s">>) =>
              /\ pc = "returned"
              /\ call_result.kind = "return"
              /\ IsSuitable(call_result.value)
              /\ Len(call_result.value) <= Len(YES_DASH) + 100
        /\ (StartsWith(AnswerLow, <<"n","o">>) /\ call_repo.language # None) =>
              /\ pc = "returned"
              /\ call_result.kind = "return"
              /\ Len(call_result.value) <= Len(YES_DASH) + 100
              /\ \/ IsUnsuitable(call_result.value)
                 \/ /\ CallBackend = "ollama"
                    /\ OverrideApplies(call_repo)
                    /\ IsSuitable(call_result.value)

\* analyze_repo_with_ollama reads the text as a No: it starts with "no" and
\* holds the "No" its explanation follows, or it is read as a No by the
\* words "not suitable" and "unsuitable"
ParsedNo(text) ==
    LET answer_text == strip(text)
        low == lower(answer_text)
    IN  \/ /\ StartsWith(low, <<"n","o">>)
           /\ IsSubstring(<<"N","o">>, answer_text)
        \/ /\ ~StartsWith(low, <<"y","e","s">>)
           /\ ~StartsWith(low, <<"n","o">>)
           /\ ~(/\ IsSubstring(<<"s","u","i","t","a","b","l","e">>, low)
                /\ ~IsSubstring(<<"n","o","t">>, Take(low, 30)))
           /\ \/ IsSubstring(<<"n","o","t"," ","s","u","i","t","a","b","l","e">>, low)
              \/ IsSubstring(<<"u","n","s","u","i","t","a","b","l","e">>, low)

\* analyze_repo_with_ollama reads the text as a Yes
ParsedYes(text) ==
    LET answer_text == strip(text)
    IN  /\ StartsWith(lower(answer_text), <<"y","e","s">>)
        /\ IsSubstring(<<"Y","e","s">>, answer_text)

\* C20: the local backend answers a text read as a No with a Yes when the
\* language is one of c, c++, assembly and at least one keyword matched, or
\* when two keywords matched, and with a No in every other case; a text read
\* as a Yes is answered with a Yes that no override changes.
C20_LocalOverride ==
    (Answered /\ CallBackend = "ollama") =>
        /\ ParsedNo(call_outcome.text) =>
              /\ pc = "returned"
              /\ call_result.kind = "return"
              /\ IF OverrideApplies(call_repo)
                 THEN IsSuitable(call_result.value)
                 ELSE IsUnsuitable(call_result.value)
        /\ ParsedYes(call_outcome.text) =>
              /\ pc = "returned"
              /\ call_result.kind = "return"
              /\ StartsWith(call_result.value, YES_DASH)

\* the method of a backend was called itself, and the backend was not set
\* up when the analyzer was built
DirectCallUnavailable ==
    /\ pc \in { "attempt", "returned" }
    /\ \/ call_entry = "analyze_repo_with_gemini" /\ ~analyzer.gemini_available
       \/ call_entry = "analyze_repo_with_ollama" /\ ~analyzer.ollama_available

\* C21: the method of a backend that was not set up returns its N/A answer
\* at once: the call makes no attempt (no request to the backend), no retry
\* and sleeps nothing.
C21_UnavailableBackend ==
    DirectCallUnavailable =>
        /\ pc = "returned"
        /\ call_result.kind = "return"
        /\ IsUnavailable(call_result.value)
        /\ call_result.value = IF call_entry = "analyze_repo_with_gemini"
                               THEN NA_GEMINI ELSE NA_OLLAMA
        /\ call_events = << [ev |-> "enter", backend |-> CallBackend] >>
        /\ attempt = 0

\* analyze_repo_with_ollama was called on an analyzer built with a credential
\* and without use_ollama, and has answered N/A
C21_Witness ==
    /\ DirectCallUnavailable
    /\ call_entry = "analyze_repo_with_ollama"
    /\ analyzer.gemini_available
    /\ call_result = Return(NA_OLLAMA)

\* the keyword, whatever its letter case, is part of the name or of the
\* description, or is a whole topic
MatchesByText(keyword, repo) ==
    \/ IsSubstring(lower(keyword), lower(repo.name))
    \/ /\ repo.description # None
       /\ IsSubstring(lower(keyword), lower(repo.description))
    \/ \E t \in 1..Len(repo.topics) : lower(repo.topics[t]) = lower(keyword)

\* the keyword is only a proper part of a topic of the repository
OnlyInsideTopic(keyword, repo) ==
    /\ ~MatchesByText(keyword, repo)
    /\ \E t \in 1..Len(repo.topics) :
          IsSubstring(lower(keyword), lower(repo.topics[t]))

\* C22: the filter counts a required keyword for a repository exactly when,
\* letter case aside, the keyword is part of the name, part of the
\* description, or equal to a whole topic; a keyword that is only a proper
\* part of a topic is not counted. A repository that no exclude keyword hits
\* is in the output exactly when some required keyword is counted for it.
C22_TopicMatching ==
    pc = "batch" =>
        /\ \A k \in 1..Len(filtered_repos) :
              \A j \in 1..Len(required_keywords) :
                 /\ InList(required_keywords[j], filtered_repos[k].matching_keywords)
                       <=> MatchesByText(required_keywords[j], filtered_repos[k])
                 /\ OnlyInsideTopic(required_keywords[j], filtered_repos[k]) =>
                       ~InList(required_keywords[j], filtered_repos[k].matching_keywords)
        /\ \A i \in 1..Len(unique_repos_list) :
              ~HitsExcludeKeyword(unique_repos_list[i]) =>
                 ((\E j \in 1..Len(required_keywords) :
                      MatchesByText(required_keywords[j], unique_repos_list[i]))
                  <=> (\E k \in 1..Len(filtered_repos) :
                          SameRepo(filtered_repos[k], unique_repos_list[i])))

\* a repository of the output has a topic that holds a required keyword as
\* a proper part; another keyword is equal to the topic and is the only one
\* among its matching keywords
C22_Witness ==
    /\ pc = "batch"
    /\ \E k \in 1..Len(filtered_repos) :
          \E j \in 1..Len(required_keywords) :
             /\ OnlyInsideTopic(required_keywords[j], filtered_repos[k])
             /\ ~InList(required_keywords[j], filtered_repos[k].matching_keywords)
             /\ filtered_repos[k].keyword_match_count = 1

\* the repositories of the input that the filter keeps with the count c, in
\* the order of the input
KeptWithCount(c) ==
    LET Kept(repo) == /\ ~HitsExcludeKeyword(repo)
                      /\ Cardinality(MatchedPlaces(repo)) = c
    IN  SelectSeq(unique_repos_list, Kept)

\* the repositories of the output with the count c, in the order of the
\* output
RankedWithCount(c) ==
    LET Has(r) == r.keyword_match_count = c
    IN  SelectSeq(filtered_repos, Has)

\* C23: the output of the filter is ordered by keyword_match_count, highest
\* first, and the repositories with the same count stand in the order they
\* have in the input.
C23_RankingStable ==
    pc = "batch" =>
        /\ \A k \in 1..(Len(filtered_repos) - 1) :
              filtered_repos[k].keyword_match_count
                 >= filtered_repos[k + 1].keyword_match_count
        /\ \A c \in 1..Len(required_keywords) :
              /\ Len(RankedWithCount(c)) = Len(KeptWithCount(c))
              /\ \A n \in 1..Len(RankedWithCount(c)) :
                    SameRepo(RankedWithCount(c)[n], KeptWithCount(c)[n])

\* the output holds two different repositories with the same count behind
\* one another, the way they came in
C23_Witness ==
    /\ pc = "batch"
    /\ Len(filtered_repos) >= 2
    /\ filtered_repos[1].keyword_match_count = filtered_repos[2].keyword_match_count
    /\ filtered_repos[1].full_name # filtered_repos[2].full_name
    /\ SameRepo(filtered_repos[1], unique_repos_list[1])

\* the pacing delay ran after the item numbered i
Paced(i) == \E n \in 1..Len(paced) : paced[n] = [idx |-> i, secs |-> 4]

\* analyze_repo hands the items of the run to Gemini or to Ollama
RealBackendUsed == analyze_with_ai /\ Backend(analyzer) # "none"

\* C24: the 4 seconds of pacing follow the classification of an item exactly
\* when Gemini or Ollama was used for it; nothing is slept after an answer
\* of the keyword fallback.
C24_PacingDelay ==
    \A i \in 0..(Len(output_data) - 1) : Paced(i) <=> RealBackendUsed

\* the positions of the checkpoint step
AtCheckpoint == pc \in { "ckpt_open", "ckpt_write", "ckpt_rename" }

\* C25: a checkpoint step that fails does not end the run: the records are
\* kept and the loop goes on with the next batch, which is classified in
\* full; the next checkpoint that is renamed, and the final file when it is
\* written, hold every record made so far, those of the batch whose
\* checkpoint failed among them.
C25_CheckpointFailureRetried ==
    /\ [][(alive /\ alive' /\ AtCheckpoint /\ pc' \notin { "ckpt_open", "ckpt_write", "ckpt_rename" }
            /\ last_ckpt'.result = "failed")
          => /\ pc' = "batch"
             /\ batch_start' = batch_start + 3
             /\ output_data' = output_data
             /\ output_json' = output_json]_vars
    /\ []((pc = "ckpt_open" /\ last_ckpt.result = "failed") =>
             /\ Len(output_data) = Min(batch_start + 3, ToClassify)
             /\ Len(output_data) > batch_start
             /\ \A i \in 0..(Len(output_data) - 1) : InList(i, classified))
    /\ []((pc = "batch" /\ last_ckpt.result = "renamed") =>
             /\ output_json.complete
             /\ output_json.data = output_data)
    /\ []((pc = "final_open" /\ last_ckpt.result = "failed") =>
             Len(output_data) = ToClassify)
    /\ [](pc = "save_csv" =>
             /\ output_json.complete
             /\ output_json.data = output_data)

\* the first checkpoint failed, so that no output_json was there when the
\* second began; the second was renamed and holds the records of both
\* batches
C25_Witness ==
    /\ pc = "batch"
    /\ batch_start = 6
    /\ last_ckpt = [before |-> Absent, result |-> "renamed"]
    /\ Len(output_json.data) = 4
    /\ output_json.data = output_data

\* all_repos holds the same page of l items at the places from i and from j,
\* the second behind the first
PageRepeated(i, j, l) ==
    /\ l >= 1
    /\ i + l <= j
    /\ j + l - 1 <= Len(all_repos)
    /\ SubSeq(all_repos, i, i + l - 1) = SubSeq(all_repos, j, j + l - 1)

\* all_repos without the l items from place j
WithoutPage(j, l) ==
    SubSeq(all_repos, 1, j - 1) \o SubSeq(all_repos, j + l, Len(all_repos))

\* C26: when the fetched items hold the same page twice, the merged list is
\* the one that the items with the page's second occurrence left out give:
\* the same identities, the same items, the same order.
C26_DedupIdempotent ==
    pc = "filter" =>
        \A i, j, l \in 1..Len(all_repos) :
            PageRepeated(i, j, l) =>
                unique_repos_list = DedupLoop(WithoutPage(j, l), << >>)

\* a page of two items was fetched twice in a row, and the merged list is
\* the page
C26_Witness ==
    /\ pc = "filter"
    /\ Len(all_repos) = 4
    /\ PageRepeated(1, 3, 2)
    /\ all_repos[1].full_name # all_repos[2].full_name
    /\ unique_repos_list = SubSeq(all_repos, 1, 2)

\* the text starts with neither "yes" nor "no", letter case aside
StartsWithNeither ==
    /\ ~StartsWith(AnswerLow, <<"y","e","s">>)
    /\ ~StartsWith(AnswerLow, <<"n","o">>)

\* the text holds "not suitable" or "unsuitable"
NegativeForm ==
    \/ IsSubstring(<<"n","o","t"," ","s","u","i","t","a","b","l","e">>, AnswerLow)
    \/ IsSubstring(<<"u","n","s","u","i","t","a","b","l","e">>, AnswerLow)

\* the answer of the word heuristic for a Yes: "Yes - " and the head of the
\* text
HeuristicYes ==
    /\ call_result.kind = "return"
    /\ \E n \in { 95, 100 } :
          call_result.value = YES_DASH \o Take(strip(call_outcome.text), n)

\* C27: a text that starts with neither "yes" nor "no" and holds "not
\* suitable" or "unsuitable" gives a No, which only the override of the local
\* backend turns into a Yes; the word heuristic gives a Yes only for a text
\* that holds "suitable" and neither of the two negative forms.
C27_SecondaryHeuristic ==
    (Answered /\ StartsWithNeither) =>
        /\ NegativeForm =>
              /\ pc = "returned"
              /\ call_result.kind = "return"
              /\ \/ IsUnsuitable(call_result.value)
                 \/ /\ CallBackend = "ollama"
                    /\ OverrideApplies(call_repo)
                    /\ IsSuitable(call_result.value)
        /\ (pc = "returned" /\ HeuristicYes) =>
              /\ IsSubstring(<<"s","u","i","t","a","b","l","e">>, AnswerLow)
              /\ ~NegativeForm

\* the text holds none of "suitable", "not suitable" and "unsuitable"
Ambiguous ==
    /\ StartsWithNeither
    /\ ~IsSubstring(<<"s","u","i","t","a","b","l","e">>, AnswerLow)

\* C28: a text that starts with neither "yes" nor "no" and holds none of the
\* three words is answered by both backends with a Yes in the attempt that
\* got it; it is never answered with a No.
C28_AmbiguousFallback ==
    (Answered /\ Ambiguous) =>
        /\ pc = "returned"
        /\ call_result.kind = "return"
        /\ IsSuitable(call_result.value)
        /\ ~IsUnsuitable(call_result.value)

\* every query with every language, the languages of a query one after the
\* other
AllCombinations ==
    << << "embedded systems", "c" >>, << "embedded systems", "c++" >>,
       << "embedded systems", "assembly" >>,
       << "firmware", "c" >>, << "firmware", "c++" >>, << "firmware", "assembly" >>,
       << "microcontroller", "c" >>, << "microcontroller", "c++" >>,
       << "microcontroller", "assembly" >>,
       << "STM32", "c" >>, << "STM32", "c++" >>, << "STM32", "assembly" >>,
       << "MSP430", "c" >>, << "MSP430", "c++" >>, << "MSP430", "assembly" >>,
       << "RTOS", "c" >>, << "RTOS", "c++" >>, << "RTOS", "assembly" >> >>

\* every query with c and c++, and the first two queries with assembly too
Schedule ==
    << << "embedded systems", "c" >>, << "embedded systems", "c++" >>,
       << "embedded systems", "assembly" >>,
       << "firmware", "c" >>, << "firmware", "c++" >>, << "firmware", "assembly" >>,
       << "microcontroller", "c" >>, << "microcontroller", "c++" >>,
       << "STM32", "c" >>, << "STM32", "c++" >>,
       << "MSP430", "c" >>, << "MSP430", "c++" >>,
       << "RTOS", "c" >>, << "RTOS", "c++" >> >>

\* the deduplication, the filter or a classification has begun
PastSearches ==
    \/ pc # "search"
    \/ unique_repos_list # << >>
    \/ filtered_repos # << >>
    \/ classified # << >>
    \/ output_data # << >>

\* C29, as it is claimed: the searches made are every query with each of c,
\* c++ and assembly, once each, in query-then-language order, and all of
\* them are made before the deduplication begins.
C29_SearchScheduleAsClaimed ==
    /\ IsPrefix(searched, AllCombinations)
    /\ PastSearches => searched = AllCombinations

\* C29, amended: the searches made are every query with c and with c++, and
\* the queries "embedded systems" and "firmware" with assembly as well, once
\* each, in query-then-language order, and all of them are made before the
\* deduplication, the filter or a classification begins. The searches made
\* so far are always the head of that list of fourteen, which names no
\* search twice.
C29_SearchSchedule ==
    /\ IsPrefix(searched, Schedule)
    /\ Len(searched) = search_idx
    /\ PastSearches => searched = Schedule

\* the classification has begun after fourteen searches, the eighth for
\* "microcontroller" in c++ and the ninth for "STM32" in c
C29_Witness ==
    /\ pc = "item"
    /\ classified # << >>
    /\ Len(searched) = 14
    /\ searched[8] = << "microcontroller", "c++" >>
    /\ searched[9] = << "STM32", "c" >>

\* C30: once the analyzer is built, whatever the credential, the flag, the
\* library and the health check were, at most one of gemini_available and
\* ollama_available holds; ollama_available holds only with use_ollama and
\* gemini_available only without it; no call changes the flags.
C30_BackendExclusivity ==
    pc # "construct" =>
        /\ ~(analyzer.gemini_available /\ analyzer.ollama_available)
        /\ analyzer.ollama_available => (analyzer.use_ollama /\ ctor.use_ollama)
        /\ analyzer.gemini_available => (~analyzer.use_ollama /\ ~ctor.use_ollama)
        /\ analyzer.use_ollama = ctor.use_ollama

\* a call has returned on an analyzer built with use_ollama, a credential, a
\* working library and a service that answers: only Ollama is available
C30_Witness ==
    /\ pc = "returned"
    /\ ctor.use_ollama
    /\ ctor.has_key /\ ctor.GEMINI_AVAILABLE /\ ctor.genai_ok
    /\ ctor.tags = "200"
    /\ analyzer.ollama_available
    /\ ~analyzer.gemini_available

\* an exclude keyword, letter case aside, is part of the name, of the
\* description or of a topic of the record
HoldsExcludeKeyword(record) ==
    \E j \in 1..Len(exclude_keywords) :
        LET k == lower(exclude_keywords[j])
        IN  \/ IsSubstring(k, lower(record.name))
            \/ /\ record.description # None
               /\ IsSubstring(k, lower(record.description))
            \/ \E t \in 1..Len(record.topics) :
                  IsSubstring(k, lower(record.topics[t]))

\* no two records have the same full_name and every record has at least one
\* matched keyword
DistinctAndMatched(data) ==
    /\ \A i, j \in 1..Len(data) : i # j => data[i].full_name # data[j].full_name
    /\ \A i \in 1..Len(data) : data[i].keyword_match_count >= 1

\* C31: at every point of a run the records made so far name no full_name
\* twice and have a keyword_match_count of at least 1; the output changes
\* only by a record put at its end, and no record put there holds an exclude
\* keyword in its name, description or topics; what is written to the
\* temporary file, to output_json and to output_csv is at every point a head
\* of the records made so far, so that every checkpoint and the final output
\* are as the records are.
C31_OutputInvariant ==
    /\ [](DistinctAndMatched(output_data))
    /\ [](/\ IsPrefix(temp_json.data, output_data)
          /\ IsPrefix(output_json.data, output_data)
          /\ IsPrefix(output_csv.data, output_data))
    /\ [][output_data' # output_data =>
             /\ Len(output_data') = Len(output_data) + 1
             /\ SubSeq(output_data', 1, Len(output_data)) = output_data
             /\ ~HoldsExcludeKeyword(output_data'[Len(output_data')])]_vars

\* a run has ended with its output written, having fetched a repository
\* twice, a repository that an exclude keyword hits and one that no keyword
\* matches; the repository fetched twice is in the output
C31_Witness ==
    /\ pc = "done"
    /\ output_csv.exists
    /\ Len(output_csv.data) >= 3
    /\ \E i, j \in 1..Len(all_repos) :
          /\ i < j
          /\ all_repos[i].full_name = all_repos[j].full_name
          /\ \E n \in 1..Len(output_data) :
                output_data[n].full_name = all_repos[i].full_name
    /\ \E i \in 1..Len(all_repos) : HitsExcludeKeyword(all_repos[i])
    /\ \E i \in 1..Len(all_repos) :
          /\ ~HitsExcludeKeyword(all_repos[i])
          /\ MatchedPlaces(all_repos[i]) = {}

====
